---- MODULE Spec2Model ----
(***************************************************************************)
(* Velorize back office: the forecasting / classification / optimization   *)
(* engine and the handlers that drive it.                                  *)
(*                                                                         *)
(* One group of variables per handler family.  Each specification below    *)
(* starts one family from the inputs it can be given and holds the other   *)
(* families idle:                                                          *)
(*   SpecRec   get_stock_recommendations          (optimization.py)        *)
(*   SpecGen   generate_forecasts and its background task (forecasting.py) *)
(*   SpecEng   ForecastingEngine, on one series           (forecasting.py) *)
(*   SpecAbc   get_abc_analysis                           (analytics.py)   *)
(*   SpecXyz   get_xyz_analysis                           (analytics.py)   *)
(*   SpecOpt   InventoryOptimizer and _get_priority_level, one call each   *)
(*   SpecMkt   get_marketing_impact_analysis, on one event (marketing.py)  *)
(*   SpecCell  get_abc_xyz_optimization and get_abc_xyz_matrix on the same  *)
(*             sales (optimization.py, analytics.py)                        *)
(*   SpecInv   adjust_stock and create_stock_movement, one request after    *)
(*             the other (inventory.py)                                     *)
(*   SpecAdj   two adjust_stock requests running at the same time           *)
(*   SpecPar   two engine / optimizer calls running in parallel, statement  *)
(*             by statement                                                *)
(*                                                                         *)
(* Quantities and amounts are whole numbers; comparisons the code makes    *)
(* on quotients are made exactly, by cross-multiplication.  The engine's   *)
(* float results are exact fractions <<numerator, denominator>>; the      *)
(* engine's standard deviation is taken to two decimals, rounded down.     *)
(***************************************************************************)
EXTENDS Integers, Sequences, FiniteSets, TLC

VARIABLES
    stock_query,        \* rows of the grouped StockOnHand query joined with
                        \* what the handler reads per product_id
    urgency_filter,     \* the urgency_filter argument of the last call
    rec_pc,             \* "idle" until the handler has returned once
    recommendations     \* the "recommendations" list the handler returned

recVars == <<stock_query, urgency_filter, rec_pc, recommendations>>

VARIABLES
    today,              \* datetime.now().date() of the run, as a day number
    forecast_table,     \* the committed demand_forecasts rows
    gen_request,        \* the ForecastGenerationRequest of the run
    gen_pc,             \* "idle", "rejected", "scheduled", "running",
                        \* "committed" or "rolled_back"
    gen_products,       \* the products the run iterates over, in order
    gen_next,           \* position of the for loop in gen_products
    gen_deleted,        \* ids removed by the bulk deletes of the open transaction
    gen_added,          \* records passed to db.add, not yet flushed
    gen_selected,       \* the local selected_method (None while unassigned)
    gen_log             \* per product processed: what the iteration did

genVars == <<today, forecast_table, gen_request, gen_pc, gen_products, gen_next,
             gen_deleted, gen_added, gen_selected, gen_log>>

VARIABLES
    eng_data,           \* the series handed to the engine, oldest first
    eng_periods,        \* seasonal_periods / periods / periods_ahead argument
    eng_alpha,          \* the alpha argument of exponential_smoothing
    eng_call,           \* the engine function called last ("" before a call)
    eng_result          \* what it returned

engVars == <<eng_data, eng_periods, eng_alpha, eng_call, eng_result>>

VARIABLES
    abc_sales,          \* rows of the grouped revenue query, in query order
    abc_pc,             \* "idle", "returned" or "raised"
    abc_results,        \* the "products" list get_abc_analysis returned
    xyz_sales,          \* rows of the grouped daily-quantity query
    xyz_pc,             \* "idle" or "returned"
    xyz_results         \* the "products" list get_xyz_analysis returned

abcVars == <<abc_sales, abc_pc, abc_results>>
xyzVars == <<xyz_sales, xyz_pc, xyz_results>>

VARIABLES
    opt_call,           \* the function called ("" before the call)
    opt_args,           \* its arguments
    opt_pc,             \* "idle", "returned" or "raised"
    opt_result          \* what it returned

optVars == <<opt_call, opt_args, opt_pc, opt_result>>

VARIABLES
    mkt_event,          \* the completed event the query returns
    mkt_sales,          \* the sales rows: sale_date, quantity_sold, net_amount
    mkt_pc,             \* "idle" or "returned"
    mkt_result          \* the event's entry of "impact_analysis"

mktVars == <<mkt_event, mkt_sales, mkt_pc, mkt_result>>

VARIABLES
    par_calls,          \* per parallel call: the function and its arguments
    par_pc,             \* per call: the statement it is at
    par_frames,         \* per frame: the local variables of the call using it
    par_result,         \* per call: None until it returns, then its result
    par_trace           \* the calls in the order their statements ran

parVars == <<par_calls, par_pc, par_frames, par_result, par_trace>>

VARIABLES
    inv_stock,          \* the stock_on_hand table: row i has id i
    inv_movements,      \* the stock_movements table, in insertion order
    inv_last,           \* the last request handled and its response status
    adj_request,        \* per concurrent request: stock_id and quantity_change
    adj_pc,             \* per concurrent request: where its handler is
    adj_local,          \* per concurrent request: the handler's locals
    adj_initial         \* the stock table when the concurrent requests arrived

invVars == <<inv_stock, inv_movements, inv_last, adj_request, adj_pc, adj_local,
             adj_initial>>

VARIABLES
    cell_sales,         \* per active product: revenue and daily quantities of the period
    cell_optimization,  \* None, or the products of GET /abc-xyz-optimization
    cell_matrix         \* None, or the products of GET /abc-xyz-matrix

cellVars == <<cell_sales, cell_optimization, cell_matrix>>

vars == <<recVars, genVars, engVars, abcVars, xyzVars, optVars, mktVars, parVars,
          invVars, cellVars>>

\* What each family's actions leave alone.
notRec == <<genVars, engVars, abcVars, xyzVars, optVars, mktVars, parVars,
           invVars, cellVars>>
notGen == <<recVars, engVars, abcVars, xyzVars, optVars, mktVars, parVars,
           invVars, cellVars>>
notEng == <<recVars, genVars, abcVars, xyzVars, optVars, mktVars, parVars,
           invVars, cellVars>>
notAbc == <<recVars, genVars, engVars, xyzVars, optVars, mktVars, parVars,
           invVars, cellVars>>
notXyz == <<recVars, genVars, engVars, abcVars, optVars, mktVars, parVars,
           invVars, cellVars>>
notOpt == <<recVars, genVars, engVars, abcVars, xyzVars, mktVars, parVars,
           invVars, cellVars>>
notMkt == <<recVars, genVars, engVars, abcVars, xyzVars, optVars, parVars,
           invVars, cellVars>>
notPar == <<recVars, genVars, engVars, abcVars, xyzVars, optVars, mktVars,
           invVars, cellVars>>
notInv == <<recVars, genVars, engVars, abcVars, xyzVars, optVars, mktVars, parVars,
           cellVars>>
notCell == <<recVars, genVars, engVars, abcVars, xyzVars, optVars, mktVars, parVars,
            invVars>>

\* Python's None, and a present value: Optional[T] is <<>> or <<v>>.
None == <<>>
Some(v) == <<v>>
IsNone(o) == o = <<>>
Val(o) == o[1]

Max2(a, b) == IF a >= b THEN a ELSE b
Min2(a, b) == IF a <= b THEN a ELSE b

(***************************************************************************)
(* get_stock_recommendations                                               *)
(***************************************************************************)
RowCounts == 1..2       \* stock rows (products) in the snapshot
MaxDeficit == 1         \* the summed quantity_available is >= -MaxDeficit
MaxStock == 2           \* largest summed quantity_available
MaxReorder == 2         \* largest Product.reorder_level
MaxDemand == 5          \* largest 30-day demand
ExpirySpread == 1       \* expiry dates reach this far past the horizon

DemandWindowDays == 30
ExpiryHorizonDays == 30
LowSupplyDays == 7
OverstockDays == 90
ExcessFactor == 3

Urgencies == {"critical", "urgent", "normal"}
RecTypes == {"STOCK_OUT", "CRITICAL_LOW", "REORDER_NOW", "LOW_SUPPLY",
             "EXPIRY_RISK", "EXCESS_STOCK", "OVERSTOCK", "OPTIMAL"}

\* One row: the sums of the grouped query, whether a Product row exists for
\* the product_id, the product's reorder_level (None when the column is
\* NULL), the 30-day demand scalar (None when there are no sales) and the
\* earliest expiry as a number of days from today (None when no expiry is
\* recorded).
AllStockRows ==
    [current_stock : (-MaxDeficit)..MaxStock,
     has_product : BOOLEAN,
     reorder_level : {None} \cup {Some(r) : r \in 1..MaxReorder},
     recent_demand : {None} \cup {Some(d) : d \in 1..MaxDemand},
     earliest_expiry : {None} \cup
        {Some(e) : e \in ExpiryHorizonDays..(ExpiryHorizonDays + ExpirySpread)}]

\* A row without a Product carries no product columns.
StockRows ==
    {row \in AllStockRows :
        ~row.has_product =>
            /\ IsNone(row.reorder_level)
            /\ IsNone(row.recent_demand)
            /\ IsNone(row.earliest_expiry)}

\* reorder_level = float(product.reorder_level or 0)
ReorderLevelOf(row) ==
    IF IsNone(row.reorder_level) THEN 0 ELSE Val(row.reorder_level)

\* recent_demand = query.scalar() or 0
RecentDemandOf(row) ==
    IF IsNone(row.recent_demand) THEN 0 ELSE Val(row.recent_demand)

\* daily_demand = recent_demand / 30 if recent_demand > 0 else 0, kept as the
\* numerator over DemandWindowDays.
DailyDemandNum(recent_demand) == IF recent_demand > 0 THEN recent_demand ELSE 0

\* days_of_supply < k, with days_of_supply = current_stock / daily_demand if
\* daily_demand > 0 else inf.
DaysOfSupplyLess(current_stock, recent_demand, k) ==
    /\ DailyDemandNum(recent_demand) > 0
    /\ current_stock * DemandWindowDays < k * DailyDemandNum(recent_demand)

\* days_of_supply > k (inf > k holds).
DaysOfSupplyMore(current_stock, recent_demand, k) ==
    \/ ~(DailyDemandNum(recent_demand) > 0)
    \/ current_stock * DemandWindowDays > k * DailyDemandNum(recent_demand)

\* The chain with the expiry test moved before the days-of-supply test.
Classify_ExpiryFirst(current_stock, reorder_level, recent_demand, earliest_expiry) ==
    IF current_stock <= 0 THEN <<"STOCK_OUT", "critical">>
    ELSE IF 2 * current_stock <= reorder_level THEN <<"CRITICAL_LOW", "critical">>
    ELSE IF current_stock <= reorder_level THEN <<"REORDER_NOW", "urgent">>
    ELSE IF ~IsNone(earliest_expiry) /\ Val(earliest_expiry) <= ExpiryHorizonDays
        THEN <<"EXPIRY_RISK", "urgent">>
    ELSE IF DaysOfSupplyLess(current_stock, recent_demand, LowSupplyDays)
        THEN <<"LOW_SUPPLY", "urgent">>
    ELSE IF current_stock > reorder_level * ExcessFactor
        THEN <<"EXCESS_STOCK", "normal">>
    ELSE IF DaysOfSupplyMore(current_stock, recent_demand, OverstockDays)
        THEN <<"OVERSTOCK", "normal">>
    ELSE <<"OPTIMAL", "normal">>

\* The if/elif chain of the handler: <<recommendation_type, urgency>>.
Classify(current_stock, reorder_level, recent_demand, earliest_expiry) ==
    IF current_stock <= 0 THEN <<"STOCK_OUT", "critical">>
    ELSE IF 2 * current_stock <= reorder_level THEN <<"CRITICAL_LOW", "critical">>
    ELSE IF current_stock <= reorder_level THEN <<"REORDER_NOW", "urgent">>
    ELSE IF DaysOfSupplyLess(current_stock, recent_demand, LowSupplyDays)
        THEN <<"LOW_SUPPLY", "urgent">>
    ELSE IF ~IsNone(earliest_expiry) /\ Val(earliest_expiry) <= ExpiryHorizonDays
        THEN <<"EXPIRY_RISK", "urgent">>
    ELSE IF current_stock > reorder_level * ExcessFactor
        THEN <<"EXCESS_STOCK", "normal">>
    ELSE IF DaysOfSupplyMore(current_stock, recent_demand, OverstockDays)
        THEN <<"OVERSTOCK", "normal">>
    ELSE <<"OPTIMAL", "normal">>

urgency_scores(urgency) ==
    CASE urgency = "critical" -> 100
      [] urgency = "urgent" -> 50
      [] urgency = "normal" -> 10
      [] OTHER -> 10

\* The weights with EXPIRY_RISK raised above LOW_SUPPLY.
type_scores_ExpiryAboveLowSupply(recommendation_type) ==
    CASE recommendation_type = "STOCK_OUT" -> 50
      [] recommendation_type = "CRITICAL_LOW" -> 40
      [] recommendation_type = "REORDER_NOW" -> 30
      [] recommendation_type = "LOW_SUPPLY" -> 25
      [] recommendation_type = "EXPIRY_RISK" -> 27
      [] recommendation_type = "EXCESS_STOCK" -> 5
      [] recommendation_type = "OVERSTOCK" -> 3
      [] recommendation_type = "OPTIMAL" -> 1
      [] OTHER -> 1

type_scores(recommendation_type) ==
    CASE recommendation_type = "STOCK_OUT" -> 50
      [] recommendation_type = "CRITICAL_LOW" -> 40
      [] recommendation_type = "REORDER_NOW" -> 30
      [] recommendation_type = "LOW_SUPPLY" -> 25
      [] recommendation_type = "EXPIRY_RISK" -> 20
      [] recommendation_type = "EXCESS_STOCK" -> 5
      [] recommendation_type = "OVERSTOCK" -> 3
      [] recommendation_type = "OPTIMAL" -> 1
      [] OTHER -> 1

_calculate_priority_score(urgency, recommendation_type) ==
    urgency_scores(urgency) + type_scores(recommendation_type)

\* The dict appended for one row.
Recommendation(product_id, row) ==
    LET cls == Classify(row.current_stock, ReorderLevelOf(row),
                        RecentDemandOf(row), row.earliest_expiry)
    IN  [product_id |-> product_id,
         current_stock |-> row.current_stock,
         reorder_level |-> ReorderLevelOf(row),
         recent_30_day_demand |-> RecentDemandOf(row),
         earliest_expiry |-> row.earliest_expiry,
         type |-> cls[1],
         urgency |-> cls[2],
         priority_score |-> _calculate_priority_score(cls[2], cls[1])]

\* list.sort(key=priority_score, reverse=True): stable, descending.
RECURSIVE InsertByScore(_, _)
InsertByScore(sorted, rec) ==
    IF sorted = <<>> THEN <<rec>>
    ELSE IF Head(sorted).priority_score >= rec.priority_score
         THEN <<Head(sorted)>> \o InsertByScore(Tail(sorted), rec)
         ELSE <<rec>> \o sorted

\* The list left in the order of the rows.
SortByScoreDesc_Unsorted(list) == list

RECURSIVE SortByScoreDesc(_)
SortByScoreDesc(list) ==
    IF list = <<>> THEN <<>>
    ELSE InsertByScore(SortByScoreDesc(SubSeq(list, 1, Len(list) - 1)),
                       list[Len(list)])

\* The loop over stock_query: rows without a Product and rows the urgency
\* filter rejects are skipped.
RECURSIVE BuildRecommendations(_, _, _)
BuildRecommendations(rows, i, filter) ==
    IF i > Len(rows) THEN <<>>
    ELSE LET row == rows[i]
             rec == Recommendation(i, row)
             rest == BuildRecommendations(rows, i + 1, filter)
         IN  IF ~row.has_product THEN rest
             ELSE IF ~IsNone(filter) /\ rec.urgency # Val(filter) THEN rest
             ELSE <<rec>> \o rest

RecInit ==
    /\ stock_query \in UNION {[1..n -> StockRows] : n \in RowCounts}
    /\ urgency_filter = None
    /\ rec_pc = "idle"
    /\ recommendations = <<>>

RecIdle ==
    /\ stock_query = <<>>
    /\ urgency_filter = None
    /\ rec_pc = "idle"
    /\ recommendations = <<>>

get_stock_recommendations(filter) ==
    /\ urgency_filter' = filter
    /\ rec_pc' = "returned"
    /\ recommendations' =
          SortByScoreDesc(BuildRecommendations(stock_query, 1, filter))
    /\ UNCHANGED <<stock_query, notRec>>


(***************************************************************************)
(* generate_forecasts / _generate_forecasts_background                     *)
(*                                                                         *)
(* The handler is modelled against the request fields and record columns   *)
(* it reads and writes (request.method, request.forecast_periods,          *)
(* DemandForecast.forecast_period, ...).  A forecast record keeps what     *)
(* decides where it is stored and how it was made; the quantity is the     *)
(* engine's value and is not kept.                                         *)
(***************************************************************************)
MaxForecastPeriods == 2     \* largest request.forecast_periods tried
HistorySlack == 1           \* history lengths reach this far past 24

PeriodsCap == 12            \* forecast_periods must be <= 12
MinHistoricalPeriods == 6   \* historical_periods must be >= 6
MinSalesPoints == 3         \* fewer monthly points: the product is skipped
AutoSeasonalMin == 24       \* auto: sarima_simple from 24 points
AutoTrendMin == 12          \* auto: linear_trend from 12 points
SeasonalPeriods == 12       \* seasonal_periods handed to sarima_simple
PeriodStepDays == 30        \* forecast_date = end_date + 30 * period

GenProductIds == {1, 2}
RunDays == {0, 335}         \* 1 January and 2 December

\* The members of ForecastMethod the if/elif chain names, and one ("ENSEMBLE")
\* standing for every member it does not name.
ChainMethods == {"MOVING_AVERAGE", "EXPONENTIAL_SMOOTHING", "LINEAR_TREND",
                 "SEASONAL_NAIVE", "SARIMA"}
RequestMethods == {None} \cup {Some(m) : m \in ChainMethods \cup {"ENSEMBLE"}}

\* Monthly points the sales query can return for a product: around each
\* length the handler and the engine branch on.
HistoryLengths ==
    {0, MinSalesPoints - 1, MinSalesPoints, AutoTrendMin - 1, AutoTrendMin,
     AutoSeasonalMin - 1} \cup (AutoSeasonalMin..(AutoSeasonalMin + HistorySlack - 1))

\* Days before each month of a 365-day year, and date_trunc('month', d) as a
\* running month number.
DaysBeforeMonth == <<0, 31, 59, 90, 120, 151, 181, 212, 243, 273, 304, 334>>
MonthOfYear(doy) ==
    CHOOSE m \in 1..12 :
        /\ DaysBeforeMonth[m] <= doy
        /\ (m = 12 \/ doy < DaysBeforeMonth[m + 1])
date_trunc_month(d) == 12 * (d \div 365) + MonthOfYear(d % 365)

\* forecast_date = end_date + timedelta(days=30 * period)
ForecastDate(period) == today + PeriodStepDays * period

\* sarima_simple's result['method'] for a history of n points.
SarimaMode(n) ==
    IF n < SeasonalPeriods * 2 THEN "linear_trend_fallback" ELSE "sarima_simple"

\* The if/elif chain on request.method, for a history of n points and the
\* given period: the engine function called, the method that produced the
\* value, the (engine-independent) method_params tag, and the value assigned
\* to selected_method (None when the branch assigns none).
MethodBranch(method, n, period) ==
    IF method = Some("MOVING_AVERAGE") THEN
        [engine |-> "moving_average", effective |-> "moving_average",
         auto_selected |-> None, selected |-> None]
    ELSE IF method = Some("EXPONENTIAL_SMOOTHING") THEN
        [engine |-> "exponential_smoothing", effective |-> "exponential_smoothing",
         auto_selected |-> None, selected |-> None]
    ELSE IF method = Some("LINEAR_TREND") THEN
        [engine |-> "linear_trend", effective |-> "linear_trend",
         auto_selected |-> None, selected |-> None]
    ELSE IF method = Some("SEASONAL_NAIVE") THEN
        [engine |-> "seasonal_naive", effective |-> "seasonal_naive",
         auto_selected |-> None, selected |-> None]
    ELSE IF method = Some("SARIMA") \/ method = None THEN
        [engine |-> "sarima_simple", effective |-> SarimaMode(n),
         auto_selected |-> None, selected |-> None]
    ELSE IF n >= AutoSeasonalMin THEN
        [engine |-> "sarima_simple", effective |-> SarimaMode(n),
         auto_selected |-> Some("sarima_simple"), selected |-> Some("SARIMA")]
    ELSE IF n >= AutoTrendMin THEN
        [engine |-> "linear_trend", effective |-> "linear_trend",
         auto_selected |-> Some("linear_trend"), selected |-> Some("LINEAR_TREND")]
    ELSE
        [engine |-> "exponential_smoothing", effective |-> "exponential_smoothing",
         auto_selected |-> Some("exponential_smoothing"),
         selected |-> Some("EXPONENTIAL_SMOOTHING")]

\* The rows the bulk delete of one period removes: the product's stored rows
\* of the target month.  The session does not autoflush, so records only
\* passed to db.add are not in the table the DELETE runs on.
RowsOfMonth(product_id, forecast_date) ==
    {r.id : r \in {q \in forecast_table :
                      /\ q.product_id = product_id
                      /\ date_trunc_month(q.forecast_period)
                            = date_trunc_month(forecast_date)}}

\* One pass of the period loop.  st carries the transaction and the locals;
\* fail_at = period makes _calculate_marketing_adjustments raise in this
\* pass.  method = request.method or selected_method raises when the request
\* names no method and selected_method was never assigned.
GenPeriod(st, product_id, n, period, fail_at) ==
    LET method == gen_request.method
        forecast_date == ForecastDate(period)
        deleted == st.deleted \cup RowsOfMonth(product_id, forecast_date)
        branch == MethodBranch(method, n, period)
        selected == IF IsNone(branch.selected) THEN st.selected ELSE branch.selected
        calls == Append(st.calls, [period |-> period, engine |-> branch.engine,
                                   effective |-> branch.effective])
        after_engine == [st EXCEPT !.deleted = deleted, !.selected = selected,
                                   !.calls = calls]
    IN  IF fail_at = period THEN
            [after_engine EXCEPT !.error = "marketing_adjustments"]
        ELSE IF IsNone(method) /\ IsNone(selected) THEN
            [after_engine EXCEPT !.error = "UnboundLocalError"]
        ELSE
            [after_engine EXCEPT !.added = Append(st.added,
                [product_id |-> product_id,
                 forecast_period |-> forecast_date,
                 method |-> IF IsNone(method) THEN Val(selected) ELSE Val(method),
                 auto_selected |-> branch.auto_selected])]

\* The period loop: stops at the first pass that raises.
RECURSIVE GenPeriods(_, _, _, _, _)
GenPeriods(st, product_id, n, period, fail_at) ==
    IF period > gen_request.forecast_periods \/ st.error # "" THEN st
    ELSE GenPeriods(GenPeriod(st, product_id, n, period, fail_at),
                    product_id, n, period + 1, fail_at)

\* What the per-product handler "except Exception: ... continue" does with
\* an error raised inside the product's try block.
OnProductError_Propagate == "abort"
OnProductError == "continue"

\* The iteration without the test on the number of monthly points.
GenIteration_NoSkip(product_id, n, fail_at) ==
    LET st0 == [deleted |-> gen_deleted, added |-> gen_added,
                selected |-> gen_selected, calls |-> <<>>, error |-> ""]
    IN  IF fail_at = -1 THEN [st0 EXCEPT !.error = "sales_query"]
        ELSE GenPeriods(st0, product_id, n, 1, fail_at)

\* One iteration of "for product in products" for a sales query returning n
\* monthly points; fail_at = -1 makes the sales query raise.
GenIteration(product_id, n, fail_at) ==
    LET st0 == [deleted |-> gen_deleted, added |-> gen_added,
                selected |-> gen_selected, calls |-> <<>>, error |-> ""]
    IN  IF fail_at = -1 THEN [st0 EXCEPT !.error = "sales_query"]
        ELSE IF n < MinSalesPoints THEN [st0 EXCEPT !.error = "skipped"]
        ELSE GenPeriods(st0, product_id, n, 1, fail_at)

\* Stored rows before the run: for each product at most one row, dated on
\* the first target date of a run made the same day.
OldRow(product_id) ==
    [id |-> product_id, product_id |-> product_id,
     forecast_period |-> ForecastDate(1), method |-> "SARIMA",
     auto_selected |-> None, run |-> "old"]

GenInit ==
    /\ today \in RunDays
    /\ \E ps \in SUBSET GenProductIds : forecast_table = {OldRow(p) : p \in ps}
    /\ gen_request = [method |-> None, forecast_periods |-> 0, historical_periods |-> 0]
    /\ gen_pc = "idle"
    /\ gen_products = <<>>
    /\ gen_next = 1
    /\ gen_deleted = {}
    /\ gen_added = <<>>
    /\ gen_selected = None
    /\ gen_log = <<>>

GenIdle ==
    /\ today = 0
    /\ forecast_table = {}
    /\ gen_request = [method |-> None, forecast_periods |-> 0, historical_periods |-> 0]
    /\ gen_pc = "idle"
    /\ gen_products = <<>>
    /\ gen_next = 1
    /\ gen_deleted = {}
    /\ gen_added = <<>>
    /\ gen_selected = None
    /\ gen_log = <<>>

\* POST /generate: validates and schedules the background task.
generate_forecasts(request) ==
    /\ gen_pc = "idle"
    /\ gen_request' = request
    /\ gen_pc' = IF request.forecast_periods < 1 \/ request.forecast_periods > PeriodsCap
                    THEN "rejected"
                 ELSE IF request.historical_periods < MinHistoricalPeriods
                    THEN "rejected"
                 ELSE "scheduled"
    /\ UNCHANGED <<today, forecast_table, gen_products, gen_next, gen_deleted,
                   gen_added, gen_selected, gen_log, notGen>>

\* The task starts: the products query returns the products in some order,
\* or raises, which the outer handler answers with db.rollback().
GenStart(products, query_fails) ==
    /\ gen_pc = "scheduled"
    /\ IF query_fails
          THEN gen_pc' = "rolled_back" /\ UNCHANGED gen_products
          ELSE gen_pc' = "running" /\ gen_products' = products
    /\ UNCHANGED <<today, forecast_table, gen_request, gen_next, gen_deleted,
                   gen_added, gen_selected, gen_log, notGen>>

\* One iteration of the product loop.
GenProduct(n, fail_at) ==
    /\ gen_pc = "running"
    /\ gen_next <= Len(gen_products)
    /\ fail_at <= gen_request.forecast_periods
    /\ LET product_id == gen_products[gen_next]
           st == GenIteration(product_id, n, fail_at)
           raised == st.error \notin {"", "skipped"}
       IN  /\ gen_log' = Append(gen_log,
                [product_id |-> product_id, history |-> n, outcome |->
                    IF st.error = "" THEN "done" ELSE st.error,
                 calls |-> st.calls])
           /\ IF raised /\ OnProductError # "continue"
                THEN \* the error reaches the outer handler: db.rollback()
                     /\ gen_pc' = "rolled_back"
                     /\ gen_deleted' = {}
                     /\ gen_added' = <<>>
                     /\ UNCHANGED <<gen_next, gen_selected>>
                ELSE /\ gen_deleted' = st.deleted
                     /\ gen_added' = st.added
                     /\ gen_selected' = st.selected
                     /\ gen_next' = gen_next + 1
                     /\ UNCHANGED gen_pc
    /\ UNCHANGED <<today, forecast_table, gen_request, gen_products, notGen>>

\* db.commit() after the loop: the deletes become final and the added
\* records are inserted with fresh ids.
NextId == 1 + Cardinality(GenProductIds)
GenCommit ==
    /\ gen_pc = "running"
    /\ gen_next > Len(gen_products)
    /\ forecast_table' =
          {r \in forecast_table : r.id \notin gen_deleted}
          \cup {[id |-> NextId + k - 1,
                 product_id |-> gen_added[k].product_id,
                 forecast_period |-> gen_added[k].forecast_period,
                 method |-> gen_added[k].method,
                 auto_selected |-> gen_added[k].auto_selected,
                 run |-> "new"] : k \in 1..Len(gen_added)}
    /\ gen_deleted' = {}
    /\ gen_added' = <<>>
    /\ gen_pc' = "committed"
    /\ UNCHANGED <<today, gen_request, gen_products, gen_next, gen_selected,
                   gen_log, notGen>>

GenRequests ==
    [method : RequestMethods,
     forecast_periods : 0..MaxForecastPeriods,
     historical_periods : {MinHistoricalPeriods - 1, MinHistoricalPeriods}]

ProductOrders == {<<1, 2>>, <<2, 1>>, <<1>>}

NextGen ==
    \/ \E request \in GenRequests : generate_forecasts(request)
    \/ \E products \in ProductOrders, query_fails \in BOOLEAN :
          GenStart(products, query_fails)
    \/ \E n \in HistoryLengths, fail_at \in -1..MaxForecastPeriods :
          GenProduct(n, fail_at)
    \/ GenCommit

(***************************************************************************)
(* Fractions                                                               *)
(***************************************************************************)
Abs(n) == IF n < 0 THEN -n ELSE n

RECURSIVE GCD(_, _)
GCD(a, b) == IF b = 0 THEN a ELSE GCD(b, a % b)

\* n / d in lowest terms, d > 0.
Q(n, d) ==
    LET sn == IF d < 0 THEN -n ELSE n
        sd == Abs(d)
        g == GCD(Abs(sn), sd)
    IN  IF sn = 0 THEN <<0, 1>> ELSE <<sn \div g, sd \div g>>

QI(n) == <<n, 1>>
\* Sums and comparisons go over the least common denominator and products
\* are reduced crosswise first, which keeps the intermediate integers small;
\* a quotient by zero (denominator 0) takes the plain cross products.
Finite(a, b) == a[2] > 0 /\ b[2] > 0
QAdd(a, b) ==
    IF ~Finite(a, b) THEN Q(a[1] * b[2] + b[1] * a[2], a[2] * b[2])
    ELSE LET g == GCD(a[2], b[2])
         IN  Q(a[1] * (b[2] \div g) + b[1] * (a[2] \div g),
               (a[2] \div g) * b[2])
QSub(a, b) ==
    IF ~Finite(a, b) THEN Q(a[1] * b[2] - b[1] * a[2], a[2] * b[2])
    ELSE QAdd(a, <<0 - b[1], b[2]>>)
QMul(a, b) ==
    IF ~Finite(a, b) \/ a[1] = 0 \/ b[1] = 0 THEN Q(a[1] * b[1], a[2] * b[2])
    ELSE LET g1 == GCD(Abs(a[1]), b[2])
             g2 == GCD(Abs(b[1]), a[2])
         IN  Q((a[1] \div g1) * (b[1] \div g2),
               (a[2] \div g2) * (b[2] \div g1))
QDiv(a, b) ==
    IF ~Finite(a, b) \/ b[1] = 0 THEN Q(a[1] * b[2], a[2] * b[1])
    ELSE QMul(a, IF b[1] < 0 THEN <<0 - b[2], 0 - b[1]>> ELSE <<b[2], b[1]>>)
QLe(a, b) ==
    IF ~Finite(a, b) THEN a[1] * b[2] <= b[1] * a[2]
    ELSE LET g == GCD(a[2], b[2])
         IN  a[1] * (b[2] \div g) <= b[1] * (a[2] \div g)
QLt(a, b) ==
    IF ~Finite(a, b) THEN a[1] * b[2] < b[1] * a[2]
    ELSE LET g == GCD(a[2], b[2])
         IN  a[1] * (b[2] \div g) < b[1] * (a[2] \div g)
QAbs(a) == <<Abs(a[1]), a[2]>>
QMax(a, b) == IF QLe(b, a) THEN a ELSE b

\* The sum of a sequence of fractions, added pairwise as numpy reduces.
QSum(qs) ==
    LET RECURSIVE range(_, _)
        range(lo, hi) ==
            IF lo > hi THEN QI(0)
            ELSE IF lo = hi THEN qs[lo]
            ELSE LET mid == (lo + hi) \div 2
                 IN  QAdd(range(lo, mid), range(mid + 1, hi))
    IN  range(1, Len(qs))

\* np.mean of a non-empty sequence of fractions.
QMean(qs) == QDiv(QSum(qs), QI(Len(qs)))

\* Largest r with r * r <= n, by bisection on lo * lo <= n < hi * hi.
RECURSIVE ISqrtIn(_, _, _)
ISqrtIn(n, lo, hi) ==
    IF hi - lo <= 1 THEN lo
    ELSE LET mid == (lo + hi) \div 2
         IN  IF mid * mid <= n THEN ISqrtIn(n, mid, hi) ELSE ISqrtIn(n, lo, mid)
ISqrt(n) == ISqrtIn(n, 0, Min2(n, 46339) + 1)

\* sqrt(a) for a >= 0, to two decimals, rounded down.
QSqrt(a) == Q(ISqrt((a[1] * 10000) \div a[2]), 100)

\* Natural numbers beyond 32 bits: limbs to the base 10^4, lowest first.
RECURSIVE BigOf(_)
BigOf(n) == IF n < 10000 THEN <<n>> ELSE <<n % 10000>> \o BigOf(n \div 10000)

\* a * k + carry for a small multiplier k (k <= 200000).
RECURSIVE BigMulSmall(_, _, _)
BigMulSmall(a, k, carry) ==
    IF a = <<>> THEN (IF carry = 0 THEN <<>> ELSE BigOf(carry))
    ELSE LET t == Head(a) * k + carry
         IN  <<t % 10000>> \o BigMulSmall(Tail(a), k, t \div 10000)

RECURSIVE BigAdd(_, _, _)
BigAdd(a, b, carry) ==
    IF a = <<>> /\ b = <<>> THEN (IF carry = 0 THEN <<>> ELSE <<carry>>)
    ELSE LET x == IF a = <<>> THEN 0 ELSE Head(a)
             y == IF b = <<>> THEN 0 ELSE Head(b)
             t == x + y + carry
         IN  <<t % 10000>>
             \o BigAdd(IF a = <<>> THEN a ELSE Tail(a),
                       IF b = <<>> THEN b ELSE Tail(b), t \div 10000)

RECURSIVE BigMul(_, _)
BigMul(a, b) ==
    IF b = <<>> THEN <<>>
    ELSE BigAdd(BigMulSmall(a, Head(b), 0), <<0>> \o BigMul(a, Tail(b)), 0)

BigLimb(a, i) == IF i <= Len(a) THEN a[i] ELSE 0

\* a <= b, comparing from limb i down.
RECURSIVE BigLeFrom(_, _, _)
BigLeFrom(a, b, i) ==
    IF i = 0 THEN TRUE
    ELSE IF BigLimb(a, i) < BigLimb(b, i) THEN TRUE
    ELSE IF BigLimb(a, i) > BigLimb(b, i) THEN FALSE
    ELSE BigLeFrom(a, b, i - 1)

BigLe(a, b) == BigLeFrom(a, b, Max2(Len(a), Len(b)))

\* s * s * d <= 4 * n * 10^4, that is s <= 2 * sqrt(n / d * 10^4).
TwiceRootAtLeast(s, n, d) ==
    BigLe(BigMul(BigMul(BigOf(s), BigOf(s)), BigOf(d)),
          <<0>> \o BigMulSmall(BigOf(n), 4, 0))

\* The largest s in lo..hi-1 with TwiceRootAtLeast(s, n, d).
RECURSIVE TwiceRootIn(_, _, _, _)
TwiceRootIn(n, d, lo, hi) ==
    IF hi - lo <= 1 THEN lo
    ELSE LET mid == (lo + hi) \div 2
         IN  IF TwiceRootAtLeast(mid, n, d) THEN TwiceRootIn(n, d, mid, hi)
             ELSE TwiceRootIn(n, d, lo, mid)

\* round(math.sqrt(a), 2) in hundredths, for a fraction a >= 0: the integer
\* nearest to y = sqrt(a * 10^4), which is (floor(2y) + 1) div 2.
RoundedSqrt(a) ==
    LET k == ISqrt(a[1] \div a[2])
        s == TwiceRootIn(a[1], a[2], 200 * k, 200 * (k + 1) + 1)
    IN  (s + 1) \div 2

\* round(x, 2) in hundredths, for a fraction x.
Round2(x) == (200 * x[1] + x[2]) \div (2 * x[2])

\* np.std (population) of a non-empty sequence of fractions.
QStd(qs) ==
    LET m == QMean(qs)
        sq == [i \in 1..Len(qs) |-> QMul(QSub(qs[i], m), QSub(qs[i], m))]
    IN  QSqrt(QMean(sq))

(***************************************************************************)
(* ForecastingEngine                                                       *)
(***************************************************************************)
MaxSeriesLen == 4       \* longest series handed to the engine
PeriodQuantities == 0..2   \* the quantities a period of the series takes
MaxSeason == 2          \* largest seasonal_periods
MaxAhead == 2           \* largest periods_ahead
MaxWindow == 3          \* largest periods (window) of moving_average

ErrorWindow == 24       \* errors come from the last 24 periods or less

\* np.mean of an empty list is nan: the fraction 0 / 0.
NaN == <<0, 0>>

\* The total of the window in place of its mean.
moving_average_Total(data, periods) ==
    IF Len(data) < periods THEN (IF data # <<>> THEN QSum(data) ELSE QI(0))
    ELSE IF data = <<>> THEN NaN
    ELSE QSum(SubSeq(data, IF periods = 0 THEN 1 ELSE Len(data) - periods + 1,
                     Len(data)))

\* moving_average on a series of fractions, periods >= 0; data[-periods:]
\* is the whole list for periods = 0.
moving_average(data, periods) ==
    IF Len(data) < periods THEN (IF data # <<>> THEN QMean(data) ELSE QI(0))
    ELSE IF data = <<>> THEN NaN
    ELSE QMean(SubSeq(data, IF periods = 0 THEN 1 ELSE Len(data) - periods + 1,
                      Len(data)))

\* smoothed = alpha * value + (1 - alpha) * smoothed
SmoothStep(alpha, value, smoothed) ==
    QAdd(QMul(alpha, value), QMul(QSub(QI(1), alpha), smoothed))

\* The loop over data[1:], from position i of the series.
RECURSIVE SmoothFrom(_, _, _, _)
SmoothFrom(data, alpha, i, smoothed) ==
    IF i > Len(data) THEN smoothed
    ELSE SmoothFrom(data, alpha, i + 1, SmoothStep(alpha, data[i], smoothed))

\* exponential_smoothing on a series of fractions
exponential_smoothing(data, alpha) ==
    IF data = <<>> THEN QI(0)
    ELSE IF Len(data) = 1 THEN data[1]
    ELSE SmoothFrom(data, alpha, 2, data[1])

\* The regression line read one period too far.
linear_trend_OnePastNext(data, periods_ahead) ==
    LET n == Len(data)
    IN  IF n < 2 THEN (IF n = 0 THEN QI(0) ELSE data[1])
        ELSE LET slope == QDiv(QSub(data[n], data[1]), QI(n - 1))
             IN  QMax(QI(0), QAdd(data[1], QMul(slope, QI(n + periods_ahead))))

\* linear_trend on a series of fractions: least squares of value against
\* the index 0..n-1, evaluated at n + periods_ahead - 1 and floored at 0.
linear_trend(data, periods_ahead) ==
    LET n == Len(data)
    IN  IF n < 2 THEN (IF n = 0 THEN QI(0) ELSE data[1])
        ELSE LET sx == QI((n * (n - 1)) \div 2)
                 sxx == QI(((n - 1) * n * (2 * n - 1)) \div 6)
                 sy == QSum(data)
                 sxy == QSum([i \in 1..n |-> QMul(QI(i - 1), data[i])])
                 slope == QDiv(QSub(QMul(QI(n), sxy), QMul(sx, sy)),
                               QSub(QMul(QI(n), sxx), QMul(sx, sx)))
                 intercept == QDiv(QSub(sy, QMul(slope, sx)), QI(n))
                 next_period == n + periods_ahead - 1
                 forecast == QAdd(QMul(slope, QI(next_period)), intercept)
             IN  QMax(QI(0), forecast)

\* seasonal_indices[i], i in 0..seasonal_periods-1 (kept at position i + 1).
SeasonalIndices(data, seasonal_periods) ==
    LET n == Len(data)
        overall_avg == QMean(data)
        season_values(i) ==
            LET js == {j \in 0..(n - 1) : j >= i /\ (j - i) % seasonal_periods = 0}
                count == Cardinality(js)
                RECURSIVE pick(_)
                pick(k) == IF k > count THEN <<>>
                           ELSE <<data[i + (k - 1) * seasonal_periods + 1]>> \o pick(k + 1)
            IN  pick(1)
        seasonal_avg(i) ==
            IF season_values(i) = <<>> THEN QI(0) ELSE QMean(season_values(i))
    IN  [i \in 1..seasonal_periods |->
            IF QLt(QI(0), overall_avg)
                THEN QDiv(seasonal_avg(i - 1), overall_avg) ELSE QI(1)]

\* recent_errors comparing each period with the one two seasons earlier.
RecentErrors_TwoSeasonsBack(data, seasonal_periods, seasonal_indices) ==
    LET n == Len(data)
        span == Min2(n - 1, ErrorWindow)
        RECURSIVE errs(_)
        errs(i) ==
            IF i >= span THEN <<>>
            ELSE IF i < n - 2 * seasonal_periods
                 THEN <<QAbs(QSub(data[n - i],
                            QMul(data[n - i - 2 * seasonal_periods],
                                 seasonal_indices[((n - i - 1) % seasonal_periods) + 1])))>>
                      \o errs(i + 1)
                 ELSE errs(i + 1)
    IN  errs(0)

\* recent_errors of sarima_simple.
RecentErrors(data, seasonal_periods, seasonal_indices) ==
    LET n == Len(data)
        span == Min2(n - 1, ErrorWindow)
        RECURSIVE errs(_)
        errs(i) ==
            IF i >= span THEN <<>>
            ELSE IF i < n - seasonal_periods
                 THEN <<QAbs(QSub(data[n - i],
                            QMul(data[n - i - seasonal_periods],
                                 seasonal_indices[((n - i - 1) % seasonal_periods) + 1])))>>
                      \o errs(i + 1)
                 ELSE errs(i + 1)
    IN  errs(0)

\* The fallback answering with the mean of the series.
FallbackResult_Mean(data) ==
    [forecast |-> IF data = <<>> THEN QI(0) ELSE QMean(data),
     confidence_lower |-> QI(0),
     confidence_upper |-> QI(0),
     seasonal_index |-> None,
     method |-> "linear_trend_fallback"]

\* What sarima_simple returns when the series is shorter than two seasons.
FallbackResult(data) ==
    [forecast |-> linear_trend(data, 1),
     confidence_lower |-> QI(0),
     confidence_upper |-> QI(0),
     seasonal_index |-> None,
     method |-> "linear_trend_fallback"]

\* sarima_simple on a series of fractions.
sarima_simple(data, seasonal_periods) ==
    IF Len(data) < seasonal_periods * 2 THEN FallbackResult(data)
    ELSE
        LET n == Len(data)
            seasonal_indices == SeasonalIndices(data, seasonal_periods)
            deseasonalized ==
                [i \in 1..n |->
                    LET idx == seasonal_indices[((i - 1) % seasonal_periods) + 1]
                    IN  IF QLt(QI(0), idx) THEN QDiv(data[i], idx) ELSE data[i]]
            trend_forecast == linear_trend(deseasonalized, 1)
            next_season_idx == n % seasonal_periods
            seasonal_forecast ==
                QMul(trend_forecast, seasonal_indices[next_season_idx + 1])
            recent_errors == RecentErrors(data, seasonal_periods, seasonal_indices)
            margin == QMul(Q(196, 100), QStd(recent_errors))
            confidence_lower ==
                IF recent_errors # <<>>
                    THEN QMax(QI(0), QSub(seasonal_forecast, margin))
                    ELSE QMul(seasonal_forecast, Q(8, 10))
            confidence_upper ==
                IF recent_errors # <<>>
                    THEN QAdd(seasonal_forecast, margin)
                    ELSE QMul(seasonal_forecast, Q(12, 10))
        IN  [forecast |-> QMax(QI(0), seasonal_forecast),
             confidence_lower |-> QMax(QI(0), confidence_lower),
             confidence_upper |-> confidence_upper,
             seasonal_index |-> Some(seasonal_indices[next_season_idx + 1]),
             method |-> "sarima_simple"]

\* A List[float] of whole quantities as fractions.
AsFractions(data) == [i \in 1..Len(data) |-> QI(data[i])]

NoResult == [method |-> ""]

\* The smoothing factors tried: the handler's 0.3, the ends of [0, 1] and
\* factors outside it.
Alphas == {Q(3, 10), QI(0), QI(1), Q(3, 2), Q(-1, 2)}

EngInit ==
    /\ eng_data \in UNION {[1..n -> PeriodQuantities] : n \in 0..MaxSeriesLen}
    /\ eng_periods = 0
    /\ eng_alpha = QI(0)
    /\ eng_call = ""
    /\ eng_result = NoResult

EngIdle ==
    /\ eng_data = <<>>
    /\ eng_periods = 0
    /\ eng_alpha = QI(0)
    /\ eng_call = ""
    /\ eng_result = NoResult

CallSarimaSimple(seasonal_periods) ==
    /\ eng_call' = "sarima_simple"
    /\ eng_periods' = seasonal_periods
    /\ eng_result' = sarima_simple(AsFractions(eng_data), seasonal_periods)
    /\ UNCHANGED <<eng_data, eng_alpha, notEng>>

CallLinearTrend(periods_ahead) ==
    /\ eng_call' = "linear_trend"
    /\ eng_periods' = periods_ahead
    /\ eng_result' = [value |-> linear_trend(AsFractions(eng_data), periods_ahead)]
    /\ UNCHANGED <<eng_data, eng_alpha, notEng>>

CallMovingAverage(periods) ==
    /\ eng_call' = "moving_average"
    /\ eng_periods' = periods
    /\ eng_result' = [value |-> moving_average(AsFractions(eng_data), periods)]
    /\ UNCHANGED <<eng_data, eng_alpha, notEng>>

CallExponentialSmoothing(alpha) ==
    /\ eng_call' = "exponential_smoothing"
    /\ eng_alpha' = alpha
    /\ eng_result' = [value |-> exponential_smoothing(AsFractions(eng_data), alpha)]
    /\ UNCHANGED <<eng_data, eng_periods, notEng>>

NextEng ==
    \/ \E seasonal_periods \in 1..MaxSeason : CallSarimaSimple(seasonal_periods)
    \/ \E periods_ahead \in 1..MaxAhead : CallLinearTrend(periods_ahead)
    \/ \E periods \in 0..MaxWindow : CallMovingAverage(periods)
    \/ \E alpha \in Alphas : CallExponentialSmoothing(alpha)

(***************************************************************************)
(* get_abc_analysis                                                        *)
(***************************************************************************)
MaxRevenue == 16        \* largest total_revenue of a product

AbcRowCounts == 0..3    \* products with sales in the period

ClassAPercent == 80
ClassBPercent == 95

\* sorted(sales_data, key=total_revenue, reverse=True): stable, descending.
RECURSIVE InsertByRevenue(_, _)
InsertByRevenue(sorted, item) ==
    IF sorted = <<>> THEN <<item>>
    ELSE IF Head(sorted).total_revenue >= item.total_revenue
         THEN <<Head(sorted)>> \o InsertByRevenue(Tail(sorted), item)
         ELSE <<item>> \o sorted

RECURSIVE SortByRevenueDesc(_)
SortByRevenueDesc(items) ==
    IF items = <<>> THEN <<>>
    ELSE InsertByRevenue(SortByRevenueDesc(SubSeq(items, 1, Len(items) - 1)),
                         items[Len(items)])

\* total_revenue = sum(item.total_revenue for item in sales_data)
RECURSIVE TotalRevenue(_)
TotalRevenue(items) ==
    IF items = <<>> THEN 0 ELSE Head(items).total_revenue + TotalRevenue(Tail(items))

\* Class B reaching up to the whole of the revenue.
AbcClassOf_BUpToAll(cumulative_percentage) ==
    IF QLe(cumulative_percentage, QI(ClassAPercent)) THEN "A"
    ELSE IF QLe(cumulative_percentage, QI(100)) THEN "B"
    ELSE "C"

\* The class thresholds read as strict bounds.
AbcClassOf_Strict(cumulative_percentage) ==
    IF QLt(cumulative_percentage, QI(ClassAPercent)) THEN "A"
    ELSE IF QLt(cumulative_percentage, QI(ClassBPercent)) THEN "B"
    ELSE "C"

\* The class of a cumulative percentage (a fraction).
AbcClassOf(cumulative_percentage) ==
    IF QLe(cumulative_percentage, QI(ClassAPercent)) THEN "A"
    ELSE IF QLe(cumulative_percentage, QI(ClassBPercent)) THEN "B"
    ELSE "C"

\* The classification loop over sorted_sales, from position i with the
\* revenue accumulated so far.  total_revenue > 0 here.
RECURSIVE AbcLoop(_, _, _, _)
AbcLoop(sorted_sales, i, cumulative_before, total_revenue) ==
    IF i > Len(sorted_sales) THEN <<>>
    ELSE LET item == sorted_sales[i]
             cumulative_revenue == cumulative_before + item.total_revenue
             cumulative_percentage ==
                QMul(Q(cumulative_revenue, total_revenue), QI(100))
         IN  <<[product_id |-> item.product_id,
                total_revenue |-> item.total_revenue,
                revenue_percentage |->
                    QMul(Q(item.total_revenue, total_revenue), QI(100)),
                cumulative_percentage |-> cumulative_percentage,
                abc_class |-> AbcClassOf(cumulative_percentage),
                rank |-> i]>>
             \o AbcLoop(sorted_sales, i + 1, cumulative_revenue, total_revenue)

AbcInit ==
    /\ abc_sales \in UNION {[1..n -> [product_id : 1..n, total_revenue : 0..MaxRevenue]]
                              : n \in AbcRowCounts}
    /\ \A i \in 1..Len(abc_sales) : abc_sales[i].product_id = i
    /\ abc_pc = "idle"
    /\ abc_results = <<>>

AbcIdle ==
    /\ abc_sales = <<>>
    /\ abc_pc = "idle"
    /\ abc_results = <<>>

\* GET /abc-analysis.  No sales: the empty answer.  Otherwise the division by
\* total_revenue in the first pass of the loop raises when the total is 0.
get_abc_analysis ==
    /\ IF abc_sales = <<>> THEN
            abc_pc' = "returned" /\ abc_results' = <<>>
       ELSE IF TotalRevenue(abc_sales) = 0 THEN
            abc_pc' = "raised" /\ abc_results' = <<>>
       ELSE /\ abc_pc' = "returned"
            /\ abc_results' = AbcLoop(SortByRevenueDesc(abc_sales), 1, 0,
                                      TotalRevenue(abc_sales))
    /\ UNCHANGED <<abc_sales, notAbc>>

NextAbc == get_abc_analysis

(***************************************************************************)
(* get_xyz_analysis                                                        *)
(***************************************************************************)
MaxQty == 6             \* largest daily quantity

XyzRowCounts == 0..4    \* rows (product, day) of the daily-quantity query

MinSamples == 2         \* fewer daily samples: no variance, no class
XUpperCv == 20          \* X below this CV
YUpperCv == 50          \* Y up to this CV

XyzProductIds == {1, 2}

\* product_sales[product_id]: the product's daily quantities, in row order.
SamplesOf(rows, product_id) ==
    LET own == SelectSeq(rows, LAMBDA r : r.product_id = product_id)
    IN  [i \in 1..Len(own) |-> own[i].daily_quantity]

\* The keys of product_sales in insertion order (first appearance).
RECURSIVE KeysInOrder(_, _)
KeysInOrder(rows, seen) ==
    IF rows = <<>> THEN <<>>
    ELSE IF Head(rows).product_id \in seen THEN KeysInOrder(Tail(rows), seen)
    ELSE <<Head(rows).product_id>>
         \o KeysInOrder(Tail(rows), seen \cup {Head(rows).product_id})

\* np.std(quantities, ddof) squared: sum of squared deviations / (n - ddof).
Variance(quantities, ddof) ==
    LET qs == AsFractions(quantities)
        m == QMean(qs)
        sq == [i \in 1..Len(qs) |-> QMul(QSub(qs[i], m), QSub(qs[i], m))]
    IN  QDiv(QSum(sq), QI(Len(qs) - ddof))

\* The standard deviation without Bessel's correction, squared.
SampleVariance_Population(quantities) == Variance(quantities, 0)

\* std_demand = np.std(quantities, ddof=1), squared.
SampleVariance(quantities) == Variance(quantities, 1)

\* The square of cv = (std_demand / mean_demand) * 100 if mean_demand > 0
\* else 0.
CvSquared(mean_demand, variance) ==
    IF QLt(QI(0), mean_demand)
        THEN QMul(QDiv(variance, QMul(mean_demand, mean_demand)), QI(10000))
        ELSE QI(0)

\* if cv < 20: X / elif cv <= 50: Y / else: Z, on the square of cv.
XyzClassOf(cv_squared) ==
    IF QLt(cv_squared, QI(XUpperCv * XUpperCv)) THEN "X"
    ELSE IF QLe(cv_squared, QI(YUpperCv * YUpperCv)) THEN "Y"
    ELSE "Z"

\* round(cv, 2) in hundredths, from the square of cv.
RoundCv(cv_squared) == RoundedSqrt(cv_squared)

\* xyz_results.sort(key=coefficient_of_variation): stable, ascending.
RECURSIVE InsertByCv(_, _)
InsertByCv(sorted, item) ==
    IF sorted = <<>> THEN <<item>>
    ELSE IF Head(sorted).coefficient_of_variation <= item.coefficient_of_variation
         THEN <<Head(sorted)>> \o InsertByCv(Tail(sorted), item)
         ELSE <<item>> \o sorted

RECURSIVE SortByCv(_)
SortByCv(items) ==
    IF items = <<>> THEN <<>>
    ELSE InsertByCv(SortByCv(SubSeq(items, 1, Len(items) - 1)), items[Len(items)])

\* The loop over product_sales.items().
RECURSIVE XyzLoop(_, _)
XyzLoop(rows, keys) ==
    IF keys = <<>> THEN <<>>
    ELSE LET product_id == Head(keys)
             quantities == SamplesOf(rows, product_id)
             cv_squared == CvSquared(QMean(AsFractions(quantities)),
                                     SampleVariance(quantities))
         IN  IF Len(quantities) < MinSamples THEN XyzLoop(rows, Tail(keys))
             ELSE <<[product_id |-> product_id,
                     data_points |-> Len(quantities),
                     coefficient_of_variation |-> RoundCv(cv_squared),
                     xyz_class |-> XyzClassOf(cv_squared)]>>
                  \o XyzLoop(rows, Tail(keys))

XyzInit ==
    /\ xyz_sales \in UNION {[1..n -> [product_id : XyzProductIds,
                                      daily_quantity : 0..MaxQty]]
                              : n \in XyzRowCounts}
    /\ xyz_pc = "idle"
    /\ xyz_results = <<>>

XyzIdle ==
    /\ xyz_sales = <<>>
    /\ xyz_pc = "idle"
    /\ xyz_results = <<>>

\* GET /xyz-analysis
get_xyz_analysis ==
    /\ xyz_pc' = "returned"
    /\ xyz_results' =
          IF xyz_sales = <<>> THEN <<>>
          ELSE SortByCv(XyzLoop(xyz_sales, KeysInOrder(xyz_sales, {})))
    /\ UNCHANGED <<xyz_sales, notXyz>>

NextXyz == get_xyz_analysis

(***************************************************************************)
(* InventoryOptimizer.calculate_eoq, calculate_abc_xyz_strategy and        *)
(* _get_priority_level                                                     *)
(***************************************************************************)
MaxAnnualDemand == 3    \* largest annual_demand
MaxCost == 2            \* largest ordering_cost and holding_cost
MaxOptStock == 5        \* largest current_stock
MaxOptReorder == 2      \* largest reorder_point
MaxOptEoq == 2          \* largest eoq handed to the strategy

DefaultPriority == 5    \* priority_matrix.get(key, 5)

EoqDemands == -1..MaxAnnualDemand
EoqCosts == -1..MaxCost
\* <<annual_demand, ordering_cost, holding_cost>> of a call: the small
\* values, and one call with amounts of everyday size.
EoqInputs == (EoqDemands \X EoqCosts \X EoqCosts) \cup {<<10000, 100, 20>>}

\* A class label is a string, here a sequence of characters: one of the
\* class letters, another letter, a lower-case letter, or the empty string.
ClassLabels == {<<"A">>, <<"B">>, <<"C">>, <<"X">>, <<"Y">>, <<"Z">>,
                <<"D">>, <<"a">>, <<>>}

Cell(max10, safety10, review, priority) ==
    [max_stock_multiplier |-> Q(max10, 10),
     safety_stock_multiplier |-> Q(safety10, 10),
     review_frequency_days |-> review,
     priority |-> priority]

strategy_matrix ==
    (<<"A", "X">> :> Cell(15, 12, 7, 1)) @@
    (<<"A", "Y">> :> Cell(20, 15, 14, 2)) @@
    (<<"A", "Z">> :> Cell(30, 20, 7, 3)) @@
    (<<"B", "X">> :> Cell(18, 13, 14, 4)) @@
    (<<"B", "Y">> :> Cell(25, 18, 21, 5)) @@
    (<<"B", "Z">> :> Cell(35, 25, 14, 6)) @@
    (<<"C", "X">> :> Cell(20, 10, 30, 7)) @@
    (<<"C", "Y">> :> Cell(30, 15, 45, 8)) @@
    (<<"C", "Z">> :> Cell(40, 20, 60, 9))

priority_matrix ==
    (<<"A", "X">> :> 1) @@ (<<"A", "Y">> :> 2) @@ (<<"A", "Z">> :> 3) @@
    (<<"B", "X">> :> 4) @@ (<<"B", "Y">> :> 5) @@ (<<"B", "Z">> :> 6) @@
    (<<"C", "X">> :> 7) @@ (<<"C", "Y">> :> 8) @@ (<<"C", "Z">> :> 9)

\* f"{abc_class}{xyz_class}"
MatrixKey(abc_class, xyz_class) == abc_class \o xyz_class

\* A default taken from another cell.
DefaultCellKey_CZ == <<"C", "Z">>
\* strategy_matrix['BY']
DefaultCellKey == <<"B", "Y">>

\* strategy_matrix.get(matrix_key, strategy_matrix['BY'])
StrategyOf(matrix_key) ==
    IF matrix_key \in DOMAIN strategy_matrix THEN strategy_matrix[matrix_key]
    ELSE strategy_matrix[DefaultCellKey]

\* The status cascade with strict comparisons.
StockStatus_Strict(current_stock, min_stock, reorder_point, max_stock) ==
    IF QLt(current_stock, min_stock) THEN "CRITICAL"
    ELSE IF QLt(current_stock, reorder_point) THEN "LOW"
    ELSE IF QLt(current_stock, max_stock) THEN "OPTIMAL"
    ELSE "EXCESS"

\* if current_stock <= min_stock ... elif ... else 'EXCESS'
StockStatus(current_stock, min_stock, reorder_point, max_stock) ==
    IF QLe(current_stock, min_stock) THEN "CRITICAL"
    ELSE IF QLe(current_stock, reorder_point) THEN "LOW"
    ELSE IF QLe(current_stock, max_stock) THEN "OPTIMAL"
    ELSE "EXCESS"

\* InventoryOptimizer.calculate_abc_xyz_strategy; stock levels in hundredths.
StrategyResult(abc_class, xyz_class, current_stock, reorder_point, eoq) ==
    LET matrix_key == MatrixKey(abc_class, xyz_class)
        strategy == StrategyOf(matrix_key)
        max_stock == QAdd(QI(reorder_point),
                          QMul(QI(eoq), strategy.max_stock_multiplier))
        min_stock == QMul(QI(reorder_point), Q(5, 10))
    IN  [recommended_min_stock |-> Round2(min_stock),
         recommended_max_stock |-> Round2(max_stock),
         recommended_order_quantity |-> Round2(QI(eoq)),
         current_stock_status |->
             StockStatus(QI(current_stock), min_stock, QI(reorder_point), max_stock),
         review_frequency_days |-> strategy.review_frequency_days,
         priority_level |-> strategy.priority,
         strategy_notes |-> matrix_key]

\* The guard without its annual_demand term.
EoqDegenerate_CostsOnly(annual_demand, ordering_cost, holding_cost) ==
    holding_cost <= 0 \/ ordering_cost <= 0

\* if holding_cost <= 0 or ordering_cost <= 0 or annual_demand <= 0
EoqDegenerate(annual_demand, ordering_cost, holding_cost) ==
    holding_cost <= 0 \/ ordering_cost <= 0 \/ annual_demand <= 0

EoqZero ==
    [eoq |-> 0, total_cost |-> 0, ordering_cost |-> 0, holding_cost |-> 0,
     orders_per_year |-> 0]

\* The EOQ formula raises on a zero holding cost (division), on a negative
\* radicand (math.sqrt) and on eoq = 0 (annual_demand / eoq).
EoqFormulaRaises(annual_demand, ordering_cost, holding_cost) ==
    \/ holding_cost = 0
    \/ (holding_cost > 0 /\ annual_demand * ordering_cost < 0)
    \/ (holding_cost < 0 /\ annual_demand * ordering_cost > 0)
    \/ annual_demand * ordering_cost = 0

\* The EOQ formula without the factor 2 under the root.
EoqFormula_NoFactor(annual_demand, ordering_cost, holding_cost) ==
    LET half == Q(annual_demand * ordering_cost * holding_cost, 2)
    IN  [eoq |-> RoundedSqrt(Q(annual_demand * ordering_cost, holding_cost)),
         total_cost |-> RoundedSqrt(QMul(half, QI(4))),
         ordering_cost |-> RoundedSqrt(half),
         holding_cost |-> RoundedSqrt(half),
         orders_per_year |->
             RoundedSqrt(Q(annual_demand * holding_cost, 2 * ordering_cost))]

\* The EOQ formula and the costs, in hundredths.  With eoq = sqrt(2DS/H):
\* orders_per_year = D / eoq = sqrt(DH / 2S), annual ordering cost =
\* annual holding cost = sqrt(DSH / 2), total = sqrt(2DSH).
EoqFormula(annual_demand, ordering_cost, holding_cost) ==
    LET half == Q(annual_demand * ordering_cost * holding_cost, 2)
    IN  [eoq |-> RoundedSqrt(Q(2 * annual_demand * ordering_cost, holding_cost)),
         total_cost |-> RoundedSqrt(QMul(half, QI(4))),
         ordering_cost |-> RoundedSqrt(half),
         holding_cost |-> RoundedSqrt(half),
         orders_per_year |->
             RoundedSqrt(Q(annual_demand * holding_cost, 2 * ordering_cost))]

MaxLeadTime == 7        \* largest lead_time_days

DefaultZScore100 == 165 \* z_scores.get(service_level, 1.65), in hundredths

ReorderLeadTimes == -1..MaxLeadTime
ReorderDemands == {-1, 0, 1, 50}
ReorderStds == {-1, 0, 1, 10}
\* service_level in thousandths: the tabulated levels, levels between
\* them, levels outside 0.90..0.99, zero and a negative level.
ServiceLevels == {-950, 0, 850, 900, 925, 950, 955, 970, 990, 999}

\* z_scores, service level in thousandths -> z in hundredths
z_scores == (900 :> 128) @@ (950 :> 165) @@ (970 :> 188) @@ (990 :> 233)

\* A lookup that takes the largest tabulated level not above the level asked.
ZScoreOf_Floor(service_level) ==
    LET below == {l \in DOMAIN z_scores : l <= service_level}
    IN  IF below = {} THEN DefaultZScore100
        ELSE z_scores[CHOOSE l \in below : \A m \in below : m <= l]

\* z_scores.get(service_level, 1.65)
ZScoreOf(service_level) ==
    IF service_level \in DOMAIN z_scores THEN z_scores[service_level]
    ELSE DefaultZScore100

\* Safety stock without the square root of the lead time.
SafetyStock100_Linear(z100, demand_std, lead_time_days) ==
    z100 * demand_std * lead_time_days

\* round(z_score * demand_std * math.sqrt(lead_time_days), 2) in hundredths,
\* for lead_time_days >= 0: the sign of demand_std times the integer nearest
\* to sqrt(z100^2 * demand_std^2 * lead_time_days).
SafetyStock100(z100, demand_std, lead_time_days) ==
    LET magnitude ==
           RoundedSqrt(Q(z100 * z100 * demand_std * demand_std * lead_time_days,
                         10000))
    IN  IF demand_std < 0 THEN -magnitude ELSE magnitude

\* math.sqrt(lead_time_days) raises ValueError on a negative argument.
ReorderPointRaises(lead_time_days) == lead_time_days < 0

\* The result of calculate_reorder_point, amounts in hundredths.
ReorderPointResult(lead_time_days, daily_demand, demand_std, service_level) ==
    LET z_score == ZScoreOf(service_level)
        lead_time_demand == 100 * daily_demand * lead_time_days
        safety_stock == SafetyStock100(z_score, demand_std, lead_time_days)
    IN  [reorder_point |-> lead_time_demand + safety_stock,
         lead_time_demand |-> lead_time_demand,
         safety_stock |-> safety_stock,
         service_level |-> service_level,
         z_score |-> z_score]

OptIdle ==
    /\ opt_call = ""
    /\ opt_args = <<>>
    /\ opt_pc = "idle"
    /\ opt_result = <<>>

\* InventoryOptimizer.calculate_eoq
calculate_eoq(annual_demand, ordering_cost, holding_cost) ==
    /\ opt_pc = "idle"
    /\ opt_call' = "calculate_eoq"
    /\ opt_args' = [annual_demand |-> annual_demand,
                    ordering_cost |-> ordering_cost,
                    holding_cost |-> holding_cost]
    /\ IF EoqDegenerate(annual_demand, ordering_cost, holding_cost) THEN
            opt_pc' = "returned" /\ opt_result' = EoqZero
       ELSE IF EoqFormulaRaises(annual_demand, ordering_cost, holding_cost) THEN
            opt_pc' = "raised" /\ opt_result' = <<>>
       ELSE /\ opt_pc' = "returned"
            /\ opt_result' = EoqFormula(annual_demand, ordering_cost, holding_cost)
    /\ UNCHANGED notOpt

\* InventoryOptimizer.calculate_reorder_point
calculate_reorder_point(lead_time_days, daily_demand, demand_std, service_level) ==
    /\ opt_pc = "idle"
    /\ opt_call' = "calculate_reorder_point"
    /\ opt_args' = [lead_time_days |-> lead_time_days,
                    daily_demand |-> daily_demand,
                    demand_std |-> demand_std,
                    service_level |-> service_level]
    /\ IF ReorderPointRaises(lead_time_days) THEN
            opt_pc' = "raised" /\ opt_result' = <<>>
       ELSE /\ opt_pc' = "returned"
            /\ opt_result' = ReorderPointResult(lead_time_days, daily_demand,
                                                demand_std, service_level)
    /\ UNCHANGED notOpt

\* InventoryOptimizer.calculate_abc_xyz_strategy
calculate_abc_xyz_strategy(abc_class, xyz_class, current_stock, reorder_point, eoq) ==
    /\ opt_pc = "idle"
    /\ opt_call' = "calculate_abc_xyz_strategy"
    /\ opt_args' = [abc_class |-> abc_class, xyz_class |-> xyz_class,
                    current_stock |-> current_stock,
                    reorder_point |-> reorder_point, eoq |-> eoq]
    /\ opt_pc' = "returned"
    /\ opt_result' = StrategyResult(abc_class, xyz_class, current_stock,
                                    reorder_point, eoq)
    /\ UNCHANGED notOpt

\* analytics._get_priority_level
_get_priority_level(abc_class, xyz_class) ==
    /\ opt_pc = "idle"
    /\ opt_call' = "_get_priority_level"
    /\ opt_args' = [abc_class |-> abc_class, xyz_class |-> xyz_class]
    /\ opt_pc' = "returned"
    /\ opt_result' =
          LET key == MatrixKey(abc_class, xyz_class)
          IN  IF key \in DOMAIN priority_matrix THEN priority_matrix[key]
              ELSE DefaultPriority
    /\ UNCHANGED notOpt

NextOpt ==
    \/ \E input \in EoqInputs : calculate_eoq(input[1], input[2], input[3])
    \/ \E abc_class \in ClassLabels, xyz_class \in ClassLabels,
          current_stock \in 0..MaxOptStock, reorder_point \in 0..MaxOptReorder,
          eoq \in 0..MaxOptEoq :
          calculate_abc_xyz_strategy(abc_class, xyz_class, current_stock,
                                     reorder_point, eoq)
    \/ \E abc_class \in ClassLabels, xyz_class \in ClassLabels :
          _get_priority_level(abc_class, xyz_class)
    \/ \E lead_time_days \in ReorderLeadTimes, daily_demand \in ReorderDemands,
          demand_std \in ReorderStds, service_level \in ServiceLevels :
          calculate_reorder_point(lead_time_days, daily_demand, demand_std,
                                  service_level)

(***************************************************************************)
(* get_marketing_impact_analysis                                           *)
(***************************************************************************)
MaxSaleQty == 2         \* largest quantity_sold of a sales row
MaxSaleAmount == 2      \* largest net_amount of a sales row
MaxBudget == 2          \* largest budget_rm of the event

SaleDays == 0..6                \* dates, as day numbers
EventStarts == {3}
EventLengths == {-1, 0, 1, 2}   \* end_date - start_date
SaleRowCounts == 0..2

\* Pre-event window ending on the first day of the event.
PreWindow_Overlap(event_start, event_duration) ==
    [start |-> event_start - event_duration + 1, end |-> event_start]

\* pre_start = event_start - timedelta(days=event_duration)
\* pre_end = event_start - timedelta(days=1)
PreWindow(event_start, event_duration) ==
    [start |-> event_start - event_duration, end |-> event_start - 1]

\* post_start = event_end + timedelta(days=1)
\* post_end = event_end + timedelta(days=event_duration)
PostWindow(event_end, event_duration) ==
    [start |-> event_end + 1, end |-> event_end + event_duration]

\* get_period_sales: the sums over sale_date BETWEEN start_dt AND end_dt;
\* a sum over no rows is NULL.
RECURSIVE SumRows(_, _, _)
SumRows(rows, window, field) ==
    IF rows = <<>> THEN 0
    ELSE (IF window.start <= Head(rows).sale_date /\ Head(rows).sale_date <= window.end
             THEN (IF field = "quantity" THEN Head(rows).quantity_sold
                   ELSE Head(rows).net_amount)
             ELSE 0)
         + SumRows(Tail(rows), window, field)

get_period_sales(rows, window) ==
    LET inside == SelectSeq(rows, LAMBDA r : window.start <= r.sale_date
                                             /\ r.sale_date <= window.end)
    IN  [total_quantity |-> IF inside = <<>> THEN None
                            ELSE Some(SumRows(rows, window, "quantity")),
         total_revenue |-> IF inside = <<>> THEN None
                           ELSE Some(SumRows(rows, window, "revenue")),
         transaction_count |-> Len(inside)]

\* float(x or 0)
OrZero(x) == IF IsNone(x) THEN 0 ELSE Val(x)

\* The percentage taken without the test of the baseline.
UpliftPercentage_Unguarded(uplift, baseline) ==
    Round2(Q(uplift * 100, IF baseline = 0 THEN 1 ELSE baseline))

\* round((uplift / baseline * 100) if baseline > 0 else 0, 2), in hundredths
UpliftPercentage(uplift, baseline) ==
    IF baseline > 0 THEN Round2(Q(uplift * 100, baseline)) ELSE 0

\* calculate_impact(baseline, event_period); amounts in hundredths
calculate_impact(baseline, event_period) ==
    LET baseline_qty == OrZero(baseline.total_quantity)
        baseline_rev == OrZero(baseline.total_revenue)
        event_qty == OrZero(event_period.total_quantity)
        event_rev == OrZero(event_period.total_revenue)
        qty_uplift == event_qty - baseline_qty
        rev_uplift == event_rev - baseline_rev
    IN  [quantity_uplift |-> 100 * qty_uplift,
         revenue_uplift |-> 100 * rev_uplift,
         quantity_uplift_percentage |-> UpliftPercentage(qty_uplift, baseline_qty),
         revenue_uplift_percentage |-> UpliftPercentage(rev_uplift, baseline_rev)]

\* roi_analysis: None unless event.budget_rm and event.budget_rm > 0
RoiAnalysis(budget_rm, revenue_uplift, event_sales) ==
    IF IsNone(budget_rm) \/ Val(budget_rm) <= 0 THEN None
    ELSE Some([budget_rm |-> 100 * Val(budget_rm),
               revenue_uplift_rm |-> revenue_uplift,
               roi_percentage |->
                   Round2(Q((revenue_uplift - 100 * Val(budget_rm)) * 100,
                            100 * Val(budget_rm))),
               cost_per_unit_sold |->
                   IF OrZero(event_sales.total_quantity) # 0
                       THEN Round2(Q(Val(budget_rm), Val(event_sales.total_quantity)))
                       ELSE 0])

\* The entry appended to impact_analysis for one event.
EventImpact(event, rows) ==
    LET event_duration == (event.end_date - event.start_date) + 1
        pre == PreWindow(event.start_date, event_duration)
        during == [start |-> event.start_date, end |-> event.end_date]
        post == PostWindow(event.end_date, event_duration)
        pre_sales == get_period_sales(rows, pre)
        event_sales == get_period_sales(rows, during)
        post_sales == get_period_sales(rows, post)
        impact_metrics == calculate_impact(pre_sales, event_sales)
        Metrics(window, sales) ==
            [period |-> window,
             quantity |-> OrZero(sales.total_quantity),
             revenue |-> OrZero(sales.total_revenue),
             transactions |-> sales.transaction_count]
    IN  [duration_days |-> event_duration,
         event_period |-> during,
         pre_event |-> Metrics(pre, pre_sales),
         during_event |-> Metrics(during, event_sales),
         post_event |-> Metrics(post, post_sales),
         impact_analysis |-> impact_metrics,
         roi_analysis |-> RoiAnalysis(event.budget_rm, impact_metrics.revenue_uplift,
                                      event_sales)]

MktInit ==
    /\ mkt_event \in {[start_date |-> st, end_date |-> st + len, budget_rm |-> b] :
                         st \in EventStarts, len \in EventLengths,
                         b \in {None} \cup {Some(v) : v \in 0..MaxBudget}}
    /\ mkt_sales \in UNION {[1..n -> [sale_date : SaleDays,
                                      quantity_sold : 1..MaxSaleQty,
                                      net_amount : 0..MaxSaleAmount]]
                              : n \in SaleRowCounts}
    /\ mkt_pc = "idle"
    /\ mkt_result = <<>>

MktIdle ==
    /\ mkt_event = <<>>
    /\ mkt_sales = <<>>
    /\ mkt_pc = "idle"
    /\ mkt_result = <<>>

\* GET /calendar/impact-analysis, the pass of its loop for the event
get_marketing_impact_analysis ==
    /\ mkt_pc = "idle"
    /\ mkt_pc' = "returned"
    /\ mkt_result' = EventImpact(mkt_event, mkt_sales)
    /\ UNCHANGED <<mkt_event, mkt_sales, notMkt>>

NextMkt == get_marketing_impact_analysis

(***************************************************************************)
(* Calls of ForecastingEngine.exponential_smoothing and                    *)
(* InventoryOptimizer.calculate_reorder_point running in parallel          *)
(***************************************************************************)
ParCalls == {1, 2}      \* one call per product

CallOf(fn, data, alpha, lead_time_days, daily_demand, demand_std, service_level) ==
    [fn |-> fn, data |-> data, alpha |-> alpha, lead_time_days |-> lead_time_days,
     daily_demand |-> daily_demand, demand_std |-> demand_std,
     service_level |-> service_level]

SmoothingCall(data) == CallOf("exponential_smoothing", data, Q(3, 10), 0, 0, 0, 0)

ReorderCall(lead_time_days, daily_demand, demand_std, service_level) ==
    CallOf("calculate_reorder_point", <<>>, QI(0), lead_time_days, daily_demand,
           demand_std, service_level)

ParInputs ==
    {SmoothingCall(<<>>), SmoothingCall(<<2>>), SmoothingCall(<<1, 2>>),
     SmoothingCall(<<2, 0, 1>>),
     ReorderCall(7, 50, 10, 950), ReorderCall(4, 1, 1, 900),
     ReorderCall(0, 1, 1, 990)}

EmptyFrame ==
    [smoothed |-> QI(0), i |-> 0, z_score |-> 0, lead_time_demand |-> 0,
     safety_stock |-> 0, reorder_point |-> 0]

\* Every call keeping its local variables in one frame.
FrameOf_Shared(c) == 1

\* A call's local variables live in the frame of that call: both classes
\* have only static methods, no attribute and no module-level variable.
FrameOf(c) == c

Local(c) == par_frames[FrameOf(c)]

SetLocals(c, locals) == par_frames' = [par_frames EXCEPT ![FrameOf(c)] = locals]

ParStep(c, pc) ==
    /\ par_pc' = [par_pc EXCEPT ![c] = pc]
    /\ par_trace' = Append(par_trace, c)
    /\ UNCHANGED <<par_calls, notPar>>

ParReturn(c, value) ==
    /\ par_result' = [par_result EXCEPT ![c] = Some(value)]
    /\ ParStep(c, "done")

\* exponential_smoothing up to "smoothed = data[0]"
SmoothingEnter(c) ==
    LET call == par_calls[c]
        data == AsFractions(call.data)
    IN  /\ call.fn = "exponential_smoothing"
        /\ par_pc[c] = "start"
        /\ IF data = <<>> THEN ParReturn(c, QI(0)) /\ UNCHANGED par_frames
           ELSE IF Len(data) = 1 THEN ParReturn(c, data[1]) /\ UNCHANGED par_frames
           ELSE /\ SetLocals(c, [Local(c) EXCEPT !.smoothed = data[1], !.i = 2])
                /\ ParStep(c, "loop")
                /\ UNCHANGED par_result

\* one pass of "for value in data[1:]", or "return smoothed" after the last
SmoothingLoop(c) ==
    LET call == par_calls[c]
        data == AsFractions(call.data)
        i == Local(c).i
    IN  /\ call.fn = "exponential_smoothing"
        /\ par_pc[c] = "loop"
        /\ IF i >= 1 /\ i <= Len(data) THEN
                /\ SetLocals(c, [Local(c) EXCEPT
                       !.smoothed = SmoothStep(call.alpha, data[i], @),
                       !.i = i + 1])
                /\ ParStep(c, "loop")
                /\ UNCHANGED par_result
           ELSE ParReturn(c, Local(c).smoothed) /\ UNCHANGED par_frames

\* z_score = z_scores.get(service_level, 1.65)
ReorderZScore(c) ==
    /\ par_calls[c].fn = "calculate_reorder_point"
    /\ par_pc[c] = "start"
    /\ SetLocals(c, [Local(c) EXCEPT !.z_score = ZScoreOf(par_calls[c].service_level)])
    /\ ParStep(c, "lead_time_demand")
    /\ UNCHANGED par_result

\* lead_time_demand = daily_demand * lead_time_days
ReorderLeadTimeDemand(c) ==
    /\ par_calls[c].fn = "calculate_reorder_point"
    /\ par_pc[c] = "lead_time_demand"
    /\ SetLocals(c, [Local(c) EXCEPT !.lead_time_demand =
                        100 * par_calls[c].daily_demand * par_calls[c].lead_time_days])
    /\ ParStep(c, "safety_stock")
    /\ UNCHANGED par_result

\* safety_stock = z_score * demand_std * math.sqrt(lead_time_days)
ReorderSafetyStock(c) ==
    /\ par_calls[c].fn = "calculate_reorder_point"
    /\ par_pc[c] = "safety_stock"
    /\ SetLocals(c, [Local(c) EXCEPT !.safety_stock =
                        SafetyStock100(Local(c).z_score, par_calls[c].demand_std,
                                       par_calls[c].lead_time_days)])
    /\ ParStep(c, "reorder_point")
    /\ UNCHANGED par_result

\* reorder_point = lead_time_demand + safety_stock
ReorderSum(c) ==
    /\ par_calls[c].fn = "calculate_reorder_point"
    /\ par_pc[c] = "reorder_point"
    /\ SetLocals(c, [Local(c) EXCEPT !.reorder_point =
                        Local(c).lead_time_demand + Local(c).safety_stock])
    /\ ParStep(c, "return")
    /\ UNCHANGED par_result

\* return {...}
ReorderReturn(c) ==
    /\ par_calls[c].fn = "calculate_reorder_point"
    /\ par_pc[c] = "return"
    /\ ParReturn(c, [reorder_point |-> Local(c).reorder_point,
                     lead_time_demand |-> Local(c).lead_time_demand,
                     safety_stock |-> Local(c).safety_stock,
                     service_level |-> par_calls[c].service_level,
                     z_score |-> Local(c).z_score])
    /\ UNCHANGED par_frames

ParInit ==
    /\ par_calls \in [ParCalls -> ParInputs]
    /\ par_pc = [c \in ParCalls |-> "start"]
    /\ par_frames = [c \in ParCalls |-> EmptyFrame]
    /\ par_result = [c \in ParCalls |-> None]
    /\ par_trace = <<>>

ParIdle ==
    /\ par_calls = <<>>
    /\ par_pc = <<>>
    /\ par_frames = <<>>
    /\ par_result = <<>>
    /\ par_trace = <<>>

NextPar ==
    \/ \E c \in ParCalls : SmoothingEnter(c)
    \/ \E c \in ParCalls : SmoothingLoop(c)
    \/ \E c \in ParCalls : ReorderZScore(c)
    \/ \E c \in ParCalls : ReorderLeadTimeDemand(c)
    \/ \E c \in ParCalls : ReorderSafetyStock(c)
    \/ \E c \in ParCalls : ReorderSum(c)
    \/ \E c \in ParCalls : ReorderReturn(c)

(***************************************************************************)
(* adjust_stock and create_stock_movement                                  *)
(***************************************************************************)
MaxInvQty == 3          \* largest quantity_available a stock entry reaches
MaxMovements == 2       \* most rows of the stock_movements table
MaxMoveQty == 2         \* largest movement quantity / adjustment size

InvProductIds == {1}    \* the products table; requests also name product 2
Slots == {1, 2}         \* a (location, lot_number) pair
StockTypesIn == {"STOCK_IN", "ADJUSTMENT_IN"}
StockTypesOut == {"STOCK_OUT", "ADJUSTMENT_OUT"}

\* "if stock.unit_cost": neither None nor zero.
Truthy(cost) == cost # None /\ Val(cost)[1] # 0

\* float(cost or 0)
CostOrZero(cost) == IF cost = None THEN QI(0) ELSE Val(cost)

\* A guard that lets every adjustment through.
AdjustRejected_Never(new_quantity) == FALSE

\* adjust_stock: "if new_quantity < 0: raise HTTPException(400)"
AdjustRejected(new_quantity) == new_quantity < 0

\* adjust_stock: the stock row after the first commit.
AdjustedStock(stock, new_quantity) ==
    [stock EXCEPT !.quantity_available = new_quantity,
                  !.total_cost = IF Truthy(stock.unit_cost)
                                    THEN Some(QMul(QI(new_quantity), Val(stock.unit_cost)))
                                    ELSE @]

\* adjust_stock: the movement record written by the second commit.
AdjustmentMovement(stock, quantity_change) ==
    [product_id |-> stock.product_id,
     movement_type |-> IF quantity_change > 0 THEN "ADJUSTMENT_IN" ELSE "ADJUSTMENT_OUT",
     quantity |-> Abs(quantity_change),
     slot |-> stock.slot]

\* query(StockOnHand).filter(product_id, location, lot_number).first(): the
\* id of the row, 0 when there is none.
FindStock(product_id, slot) ==
    LET ids == {i \in DOMAIN inv_stock :
                   inv_stock[i].product_id = product_id /\ inv_stock[i].slot = slot}
    IN  IF ids = {} THEN 0 ELSE CHOOSE i \in ids : \A j \in ids : i <= j

\* create_stock_movement: "if not stock or stock.quantity_available <
\* movement.quantity"
InsufficientStock(stock_id, quantity) ==
    stock_id = 0 \/ inv_stock[stock_id].quantity_available < quantity

\* create_stock_movement: an existing row after a STOCK_IN / ADJUSTMENT_IN.
ReceivedStock(stock, movement) ==
    LET total_quantity == stock.quantity_available + movement.quantity
        total_cost == QAdd(CostOrZero(stock.total_cost), CostOrZero(movement.total_cost))
    IN  IF Truthy(stock.unit_cost) /\ Truthy(movement.unit_cost)
            THEN [stock EXCEPT !.quantity_available = total_quantity,
                               !.unit_cost = IF total_quantity > 0
                                                THEN Some(QDiv(total_cost, QI(total_quantity)))
                                                ELSE movement.unit_cost,
                               !.total_cost = Some(total_cost)]
            ELSE [stock EXCEPT !.quantity_available = total_quantity]

\* create_stock_movement: the row after a STOCK_OUT / ADJUSTMENT_OUT.
IssuedStock(stock, movement) ==
    LET left == stock.quantity_available - movement.quantity
    IN  [stock EXCEPT !.quantity_available = left,
                      !.total_cost = IF Truthy(stock.unit_cost)
                                        THEN Some(QMul(QI(left), Val(stock.unit_cost)))
                                        ELSE @]

\* create_stock_movement: the new row of a first receipt.
NewStock(movement) ==
    [product_id |-> movement.product_id, slot |-> movement.slot,
     quantity_available |-> movement.quantity,
     unit_cost |-> movement.unit_cost, total_cost |-> movement.total_cost]

\* The movement row as stored (the columns the stock arithmetic reads).
MovementRow(movement) ==
    [product_id |-> movement.product_id, movement_type |-> movement.movement_type,
     quantity |-> movement.quantity, slot |-> movement.slot]

Handled(call, stock_id, movement_type, quantity, status) ==
    [call |-> call, stock_id |-> stock_id, movement_type |-> movement_type,
     quantity |-> quantity, status |-> status]

\* Stock rows before the requests: one entry of product 1.
InitialStock ==
    {<<[product_id |-> 1, slot |-> 1, quantity_available |-> q,
        unit_cost |-> c,
        total_cost |-> IF c = None THEN None ELSE Some(QMul(QI(q), Val(c)))]>> :
        q \in 0..2, c \in {None, Some(QI(2))}}

\* The StockMovementCreate bodies tried: quantity > 0 (schema), a type that
\* leaves the stock alone, and one body naming a product that does not exist.
MovementInputs ==
    {[product_id |-> 1, movement_type |-> t, quantity |-> q, slot |-> sl,
      unit_cost |-> c,
      total_cost |-> IF c = None THEN None ELSE Some(QMul(QI(q), Val(c)))] :
        t \in StockTypesIn \cup StockTypesOut \cup {"TRANSFER"},
        q \in 1..MaxMoveQty, sl \in Slots, c \in {None, Some(QI(1))}}
    \cup {[product_id |-> 2, movement_type |-> "STOCK_IN", quantity |-> 1, slot |-> 1,
           unit_cost |-> None, total_cost |-> None]}

NoRequests == <<>>

InvInit ==
    /\ inv_stock \in InitialStock
    /\ inv_movements = <<>>
    /\ inv_last = Handled("", 0, "", 0, 0)
    /\ adj_request = NoRequests
    /\ adj_pc = <<>>
    /\ adj_local = <<>>
    /\ adj_initial = <<>>

InvIdle ==
    /\ inv_stock = <<>>
    /\ inv_movements = <<>>
    /\ inv_last = Handled("", 0, "", 0, 0)
    /\ adj_request = NoRequests
    /\ adj_pc = <<>>
    /\ adj_local = <<>>
    /\ adj_initial = <<>>

\* POST /stock/{stock_id}/adjust, start to finish.
adjust_stock(stock_id, quantity_change) ==
    /\ adj_request = NoRequests
    /\ inv_stock # <<>>
    /\ Len(inv_movements) < MaxMovements
    /\ IF stock_id \notin DOMAIN inv_stock THEN
            /\ inv_last' = Handled("adjust_stock", stock_id, "", quantity_change, 404)
            /\ UNCHANGED <<inv_stock, inv_movements>>
       ELSE LET stock == inv_stock[stock_id]
                new_quantity == stock.quantity_available + quantity_change
            IN  IF AdjustRejected(new_quantity) THEN
                    /\ inv_last' = Handled("adjust_stock", stock_id, "", quantity_change, 400)
                    /\ UNCHANGED <<inv_stock, inv_movements>>
                ELSE
                    /\ new_quantity <= MaxInvQty
                    /\ inv_stock' = [inv_stock EXCEPT ![stock_id] =
                                        AdjustedStock(stock, new_quantity)]
                    /\ inv_movements' = Append(inv_movements,
                                               AdjustmentMovement(stock, quantity_change))
                    /\ inv_last' = Handled("adjust_stock", stock_id, "", quantity_change, 200)
    /\ UNCHANGED <<adj_request, adj_pc, adj_local, adj_initial, notInv>>

\* POST /movements, start to finish.  A request that raises never reaches
\* db.commit(): the session is closed with the movement still pending.
create_stock_movement(movement_in) ==
    /\ adj_request = NoRequests
    /\ inv_stock # <<>>
    /\ Len(inv_movements) < MaxMovements
    /\ LET movement == movement_in
           stock_id == FindStock(movement.product_id, movement.slot)
           reply(status) == Handled("create_stock_movement", stock_id,
                                    movement.movement_type, movement.quantity, status)
       IN  IF movement.product_id \notin InvProductIds THEN
               /\ inv_last' = reply(404)
               /\ UNCHANGED <<inv_stock, inv_movements>>
           ELSE IF movement.movement_type \in StockTypesIn THEN
               /\ inv_stock' =
                     IF stock_id = 0 THEN Append(inv_stock, NewStock(movement))
                     ELSE [inv_stock EXCEPT ![stock_id] = ReceivedStock(@, movement)]
               /\ (stock_id # 0 =>
                      inv_stock[stock_id].quantity_available + movement.quantity <= MaxInvQty)
               /\ inv_movements' = Append(inv_movements, MovementRow(movement))
               /\ inv_last' = reply(201)
           ELSE IF movement.movement_type \in StockTypesOut THEN
               IF InsufficientStock(stock_id, movement.quantity) THEN
                   /\ inv_last' = reply(400)
                   /\ UNCHANGED <<inv_stock, inv_movements>>
               ELSE
                   /\ inv_stock' = [inv_stock EXCEPT ![stock_id] = IssuedStock(@, movement)]
                   /\ inv_movements' = Append(inv_movements, MovementRow(movement))
                   /\ inv_last' = reply(201)
           ELSE
               /\ inv_movements' = Append(inv_movements, MovementRow(movement))
               /\ inv_last' = reply(201)
               /\ UNCHANGED inv_stock
    /\ UNCHANGED <<adj_request, adj_pc, adj_local, adj_initial, notInv>>

NextInv ==
    \/ \E stock_id \in 1..3, quantity_change \in (0 - MaxMoveQty)..MaxMoveQty :
          adjust_stock(stock_id, quantity_change)
    \/ \E movement_in \in MovementInputs : create_stock_movement(movement_in)

(***************************************************************************)
(* Two adjust_stock requests at the same time: each request has its own    *)
(* session (get_db) and runs in its own worker thread.                     *)
(***************************************************************************)
AdjRequests == {1, 2}

AdjBodies ==
    [stock_id : {1, 2}, quantity_change : (0 - MaxMoveQty)..MaxMoveQty]

AdjInit ==
    /\ inv_stock \in InitialStock
    /\ inv_movements = <<>>
    /\ inv_last = Handled("", 0, "", 0, 0)
    /\ adj_request \in [AdjRequests -> AdjBodies]
    /\ adj_pc = [r \in AdjRequests |-> "start"]
    /\ adj_local = [r \in AdjRequests |-> [original_quantity |-> 0, new_quantity |-> 0]]
    /\ adj_initial = inv_stock

\* Lines 218-232: the SELECT, new_quantity and the two early exits.
AdjLoad(r) ==
    LET stock_id == adj_request[r].stock_id
    IN  /\ adj_request # NoRequests
        /\ adj_pc[r] = "start"
        /\ IF stock_id \notin DOMAIN inv_stock THEN
                /\ adj_pc' = [adj_pc EXCEPT ![r] = "404"]
                /\ UNCHANGED adj_local
           ELSE LET original_quantity == inv_stock[stock_id].quantity_available
                    new_quantity == original_quantity + adj_request[r].quantity_change
                IN  /\ adj_local' = [adj_local EXCEPT ![r] =
                           [original_quantity |-> original_quantity,
                            new_quantity |-> new_quantity]]
                    /\ adj_pc' = [adj_pc EXCEPT ![r] =
                           IF AdjustRejected(new_quantity) THEN "400" ELSE "loaded"]
        /\ UNCHANGED <<inv_stock, inv_movements, inv_last, adj_request, adj_initial,
                       notInv>>

\* Lines 235-242: the first db.commit() writes the attributes the handler
\* set, with the values it computed from the row it had loaded; an
\* attribute set to the value it was loaded with is not written.
AdjCommitStock(r) ==
    LET stock_id == adj_request[r].stock_id
        local == adj_local[r]
    IN  /\ adj_request # NoRequests
        /\ adj_pc[r] = "loaded"
        /\ inv_stock' = [inv_stock EXCEPT ![stock_id] =
              IF local.new_quantity = local.original_quantity
                  THEN [@ EXCEPT !.total_cost =
                           AdjustedStock(inv_stock[stock_id], local.new_quantity).total_cost]
                  ELSE AdjustedStock(@, local.new_quantity)]
        /\ adj_pc' = [adj_pc EXCEPT ![r] = "committed"]
        /\ UNCHANGED <<inv_movements, inv_last, adj_request, adj_local, adj_initial,
                       notInv>>

\* Lines 245-265: the movement record and the second db.commit().
AdjRecordMovement(r) ==
    LET stock_id == adj_request[r].stock_id
    IN  /\ adj_request # NoRequests
        /\ adj_pc[r] = "committed"
        /\ inv_movements' = Append(inv_movements,
              AdjustmentMovement(inv_stock[stock_id], adj_request[r].quantity_change))
        /\ adj_pc' = [adj_pc EXCEPT ![r] = "done"]
        /\ UNCHANGED <<inv_stock, inv_last, adj_request, adj_local, adj_initial, notInv>>

NextAdj ==
    \/ \E r \in AdjRequests : AdjLoad(r)
    \/ \E r \in AdjRequests : AdjCommitStock(r)
    \/ \E r \in AdjRequests : AdjRecordMovement(r)

(***************************************************************************)
(* get_abc_xyz_optimization and get_abc_xyz_matrix on the same sales       *)
(***************************************************************************)
MinOptDays == 30        \* optimization skips a product with fewer sale days
HighValueRevenue == 50000
MediumValueRevenue == 10000

\* n daily quantities: the first k days sold a, the others b.
DailySeries(k, a, n, b) == [i \in 1..n |-> IF i <= k THEN a ELSE b]

\* Daily quantities of a product over the period: steady, nearly steady,
\* half the days without sales, and a product sold on two days only.
SeriesTried ==
    {DailySeries(0, 2, 30, 2), DailySeries(2, 1, 30, 4), DailySeries(15, 0, 30, 4),
     DailySeries(1, 1, 2, 3)}

RevenuesTried == {100, 20000, 60000}

\* optimization.py: the ABC class from the product's own revenue.
OptAbcClass(total_revenue) ==
    IF total_revenue > HighValueRevenue THEN "A"
    ELSE IF total_revenue > MediumValueRevenue THEN "B"
    ELSE "C"

\* optimization.py: std_demand = np.std(daily_quantities), squared.
PopulationVariance(quantities) == Variance(quantities, 0)

\* optimization.py: the XYZ class of one product.
OptXyzClass(daily_quantities) ==
    IF daily_quantities # <<>>
        THEN XyzClassOf(CvSquared(QMean(AsFractions(daily_quantities)),
                                  PopulationVariance(daily_quantities)))
        ELSE "Y"

\* analytics.py: the XYZ class of one product.
MatrixXyzClass(quantities) ==
    XyzClassOf(CvSquared(QMean(AsFractions(quantities)), SampleVariance(quantities)))

\* The loop of get_abc_xyz_optimization from product i: classification part
\* of each result.
RECURSIVE OptimizationLoop(_)
OptimizationLoop(i) ==
    IF i > Len(cell_sales) THEN <<>>
    ELSE LET product == cell_sales[i]
         IN  IF Len(product.daily_quantities) < MinOptDays THEN OptimizationLoop(i + 1)
             ELSE <<[product_id |-> product.product_id,
                     abc_class |-> OptAbcClass(product.total_revenue),
                     xyz_class |-> OptXyzClass(product.daily_quantities)]>>
                  \o OptimizationLoop(i + 1)

\* The loop of get_abc_xyz_matrix over abc_data["products"] from item i.
RECURSIVE MatrixLoop(_, _)
MatrixLoop(abc_products, i) ==
    IF i > Len(abc_products) THEN <<>>
    ELSE LET abc_item == abc_products[i]
             quantities == cell_sales[abc_item.product_id].daily_quantities
         IN  IF Len(quantities) < MinSamples THEN MatrixLoop(abc_products, i + 1)
             ELSE <<[product_id |-> abc_item.product_id,
                     abc_class |-> abc_item.abc_class,
                     xyz_class |-> MatrixXyzClass(quantities)]>>
                  \o MatrixLoop(abc_products, i + 1)

CellInit ==
    /\ cell_sales \in UNION {[1..n -> [product_id : 1..n, total_revenue : RevenuesTried,
                                       daily_quantities : SeriesTried]] : n \in 1..2}
    /\ \A i \in 1..Len(cell_sales) : cell_sales[i].product_id = i
    /\ cell_optimization = None
    /\ cell_matrix = None

CellIdle ==
    /\ cell_sales = <<>>
    /\ cell_optimization = None
    /\ cell_matrix = None

\* GET /abc-xyz-optimization
get_abc_xyz_optimization ==
    /\ cell_sales # <<>>
    /\ cell_optimization = None
    /\ cell_optimization' = Some(OptimizationLoop(1))
    /\ UNCHANGED <<cell_sales, cell_matrix, notCell>>

\* GET /abc-xyz-matrix
get_abc_xyz_matrix ==
    /\ cell_sales # <<>>
    /\ cell_matrix = None
    /\ cell_matrix' = Some(MatrixLoop(AbcLoop(SortByRevenueDesc(cell_sales), 1, 0,
                                              TotalRevenue(cell_sales)), 1))
    /\ UNCHANGED <<cell_sales, cell_optimization, notCell>>

NextCell ==
    \/ get_abc_xyz_optimization
    \/ get_abc_xyz_matrix

(***************************************************************************)
(* Specifications                                                          *)
(***************************************************************************)
NextRec ==
    \E filter \in {None} \cup {Some(u) : u \in Urgencies} :
        get_stock_recommendations(filter)

InitRec == RecInit /\ GenIdle /\ EngIdle /\ AbcIdle /\ XyzIdle /\ OptIdle /\ MktIdle /\ ParIdle
              /\ InvIdle /\ CellIdle
SpecRec == InitRec /\ [][NextRec]_vars

InitGen == GenInit /\ RecIdle /\ EngIdle /\ AbcIdle /\ XyzIdle /\ OptIdle /\ MktIdle /\ ParIdle
              /\ InvIdle /\ CellIdle
SpecGen == InitGen /\ [][NextGen]_vars

InitEng == EngInit /\ RecIdle /\ GenIdle /\ AbcIdle /\ XyzIdle /\ OptIdle /\ MktIdle /\ ParIdle
              /\ InvIdle /\ CellIdle
SpecEng == InitEng /\ [][NextEng]_vars

InitAbc == AbcInit /\ RecIdle /\ GenIdle /\ EngIdle /\ XyzIdle /\ OptIdle /\ MktIdle /\ ParIdle
              /\ InvIdle /\ CellIdle
SpecAbc == InitAbc /\ [][NextAbc]_vars

InitXyz == XyzInit /\ RecIdle /\ GenIdle /\ EngIdle /\ AbcIdle /\ OptIdle /\ MktIdle /\ ParIdle
              /\ InvIdle /\ CellIdle
SpecXyz == InitXyz /\ [][NextXyz]_vars

InitOpt == OptIdle /\ RecIdle /\ GenIdle /\ EngIdle /\ AbcIdle /\ XyzIdle /\ MktIdle /\ ParIdle
              /\ InvIdle /\ CellIdle
SpecOpt == InitOpt /\ [][NextOpt]_vars

InitMkt == MktInit /\ RecIdle /\ GenIdle /\ EngIdle /\ AbcIdle /\ XyzIdle /\ OptIdle /\ ParIdle
              /\ InvIdle /\ CellIdle
SpecMkt == InitMkt /\ [][NextMkt]_vars

InitPar ==
    ParInit /\ RecIdle /\ GenIdle /\ EngIdle /\ AbcIdle /\ XyzIdle /\ OptIdle /\ MktIdle
            /\ InvIdle /\ CellIdle
SpecPar == InitPar /\ [][NextPar]_vars

InitInv ==
    InvInit /\ RecIdle /\ GenIdle /\ EngIdle /\ AbcIdle /\ XyzIdle /\ OptIdle /\ MktIdle
            /\ ParIdle /\ CellIdle
SpecInv == InitInv /\ [][NextInv]_vars

InitAdj ==
    AdjInit /\ RecIdle /\ GenIdle /\ EngIdle /\ AbcIdle /\ XyzIdle /\ OptIdle /\ MktIdle
            /\ ParIdle /\ CellIdle
SpecAdj == InitAdj /\ [][NextAdj]_vars

InitCell ==
    CellInit /\ RecIdle /\ GenIdle /\ EngIdle /\ AbcIdle /\ XyzIdle /\ OptIdle /\ MktIdle
             /\ ParIdle /\ InvIdle
SpecCell == InitCell /\ [][NextCell]_vars

(***************************************************************************)
(* C1.  The decision cascade, stated rule by rule.                         *)
(***************************************************************************)
\* Rule k of the cascade (section 4.6), on the figures a recommendation
\* reports; days_of_supply = stock / (demand / 30), infinite at no demand.
RuleHolds(k, rec) ==
    LET stock == rec.current_stock
        level == rec.reorder_level
        demand == rec.recent_30_day_demand
    IN  CASE k = 1 -> stock <= 0
          [] k = 2 -> 2 * stock <= level
          [] k = 3 -> stock <= level
          [] k = 4 -> demand > 0 /\ 30 * stock < 7 * demand
          [] k = 5 -> rec.earliest_expiry # None /\ rec.earliest_expiry[1] <= 30
          [] k = 6 -> stock > 3 * level
          [] k = 7 -> demand = 0 \/ 30 * stock > 90 * demand
          [] k = 8 -> TRUE

RuleOutcome ==
    <<  <<"STOCK_OUT", "critical">>, <<"CRITICAL_LOW", "critical">>,
        <<"REORDER_NOW", "urgent">>, <<"LOW_SUPPLY", "urgent">>,
        <<"EXPIRY_RISK", "urgent">>, <<"EXCESS_STOCK", "normal">>,
        <<"OVERSTOCK", "normal">>, <<"OPTIMAL", "normal">>  >>

FirstRule(rec) ==
    CHOOSE k \in 1..8 : RuleHolds(k, rec) /\ \A j \in 1..(k - 1) : ~RuleHolds(j, rec)

RecOf(i) == {k \in 1..Len(recommendations) : recommendations[k].product_id = i}

\* C1: every recommendation returned carries the type and urgency of the
\* first rule of the cascade whose condition holds on its stock, reorder
\* level, demand and expiry; stock <= 0 always gives STOCK_OUT / critical;
\* and every row with a product whose urgency passes the filter is reported
\* once, with the row's own figures.
C1_FirstMatchWins ==
    rec_pc = "returned" =>
        /\ \A k \in 1..Len(recommendations) :
              LET rec == recommendations[k]
                  row == stock_query[rec.product_id]
              IN  /\ <<rec.type, rec.urgency>> = RuleOutcome[FirstRule(rec)]
                  /\ rec.current_stock <= 0 =>
                        rec.type = "STOCK_OUT" /\ rec.urgency = "critical"
                  /\ rec.current_stock = row.current_stock
                  /\ rec.earliest_expiry = row.earliest_expiry
                  /\ rec.reorder_level =
                        (IF row.reorder_level = None THEN 0 ELSE row.reorder_level[1])
                  /\ rec.recent_30_day_demand =
                        (IF row.recent_demand = None THEN 0 ELSE row.recent_demand[1])
        /\ \A i \in 1..Len(stock_query) :
              /\ Cardinality(RecOf(i)) <= 1
              /\ (stock_query[i].has_product /\ urgency_filter = None)
                    => Cardinality(RecOf(i)) = 1

\* A stock-out row whose expiry is also near and whose demand is high is
\* reported as STOCK_OUT, next to a row where days of supply decide before
\* a near expiry.
C1_Witness ==
    /\ rec_pc = "returned"
    /\ \E k \in 1..Len(recommendations) :
          /\ recommendations[k].current_stock <= 0
          /\ recommendations[k].earliest_expiry = Some(ExpiryHorizonDays)
          /\ recommendations[k].type = "STOCK_OUT"
    /\ \E k \in 1..Len(recommendations) :
          /\ recommendations[k].earliest_expiry = Some(ExpiryHorizonDays)
          /\ recommendations[k].type = "LOW_SUPPLY"


(***************************************************************************)
(* C2, C3.  Forecast generation.                                           *)
(***************************************************************************)
\* The selection policy of section 4.2, by history length.
AutoPolicy(n) ==
    IF n >= 24 THEN "sarima_simple"
    ELSE IF n >= 12 THEN "linear_trend"
    ELSE "exponential_smoothing"

\* The method that produced a value, the fallback of sarima_simple counted
\* as linear_trend.
MethodUsed(call) ==
    IF call.effective = "linear_trend_fallback" THEN "linear_trend" ELSE call.effective

\* C2: when the request gives no method, the method applied to a product is
\* chosen by the length of its history: sarima_simple from 24 points,
\* linear_trend from 12 to 23, exponential_smoothing below 12.
C2_AutoSelectionByHistory ==
    gen_request.method = None =>
        \A i \in 1..Len(gen_log) : \A c \in 1..Len(gen_log[i].calls) :
            MethodUsed(gen_log[i].calls[c]) = AutoPolicy(gen_log[i].history)

NewRowsOf(product_id) ==
    {r \in forecast_table : r.run = "new" /\ r.product_id = product_id}

C4_BoundsBracketForecast ==
    eng_call = "sarima_simple" =>
        /\ 0 <= eng_result.forecast[1]
        /\ eng_result.confidence_lower[1] * eng_result.forecast[2]
              <= eng_result.forecast[1] * eng_result.confidence_lower[2]
        /\ eng_result.forecast[1] * eng_result.confidence_upper[2]
              <= eng_result.confidence_upper[1] * eng_result.forecast[2]

\* Revenue of the first i products of the returned list.
RECURSIVE RunningRevenue(_)
RunningRevenue(i) ==
    IF i = 0 THEN 0 ELSE abc_results[i].total_revenue + RunningRevenue(i - 1)

\* Total revenue of the input rows.
RECURSIVE InputRevenue(_)
InputRevenue(i) ==
    IF i = 0 THEN 0 ELSE abc_sales[i].total_revenue + InputRevenue(i - 1)

AbcAnswered == abc_pc = "returned" /\ abc_sales # <<>>

\* The returned list holds every input product once, with its revenue.
AbcCoversInput ==
    /\ Len(abc_results) = Len(abc_sales)
    /\ \A p \in 1..Len(abc_sales) :
          Cardinality({i \in 1..Len(abc_results) : abc_results[i].product_id = p}) = 1
    /\ \A i \in 1..Len(abc_results) :
          abc_results[i].total_revenue
             = abc_sales[abc_results[i].product_id].total_revenue

\* Share of the first i products in percent, against a threshold.
ShareAtMost(i, percent) == 100 * RunningRevenue(i) <= percent * InputRevenue(Len(abc_sales))

\* C5: the list returned by the ABC analysis is ordered by revenue
\* descending with equal revenues in input order, each entry carries the
\* running share of total revenue in percent, and its class is A when that
\* share is <= 80, B when it is > 80 and <= 95, and C otherwise.
C5_AbcRule ==
    AbcAnswered =>
       /\ AbcCoversInput
       /\ \A i, j \in 1..Len(abc_results) :
             i < j =>
                \/ abc_results[i].total_revenue > abc_results[j].total_revenue
                \/ /\ abc_results[i].total_revenue = abc_results[j].total_revenue
                   /\ abc_results[i].product_id < abc_results[j].product_id
       /\ \A i \in 1..Len(abc_results) :
             /\ abc_results[i].cumulative_percentage[1] * InputRevenue(Len(abc_sales))
                   = 100 * RunningRevenue(i) * abc_results[i].cumulative_percentage[2]
             /\ abc_results[i].abc_class =
                   IF ShareAtMost(i, 80) THEN "A"
                   ELSE IF ShareAtMost(i, 95) THEN "B"
                   ELSE "C"

\* Three products, two of equal revenue, the first reaching exactly 80 %.
C5_Witness ==
    /\ AbcAnswered
    /\ Len(abc_results) = 3
    /\ 100 * RunningRevenue(1) = 80 * InputRevenue(3)
    /\ abc_results[2].total_revenue = abc_results[3].total_revenue
    /\ abc_sales[1].total_revenue < abc_sales[3].total_revenue
    /\ <<abc_results[1].abc_class, abc_results[2].abc_class, abc_results[3].abc_class>>
          = <<"A", "B", "C">>

\* C6: whenever the query returns at least one product, the analysis
\* answers, every input product appears once with one of the classes A, B,
\* C, and the cumulative percentage never decreases down the list.
C6_PartitionAndMonotone ==
    (abc_pc # "idle" /\ abc_sales # <<>>) =>
       /\ abc_pc = "returned"
       /\ AbcCoversInput
       /\ \A i \in 1..Len(abc_results) : abc_results[i].abc_class \in {"A", "B", "C"}
       /\ \A i \in 1..(Len(abc_results) - 1) :
             QLe(abc_results[i].cumulative_percentage,
                 abc_results[i + 1].cumulative_percentage)

\* The daily samples of a product in the input rows.
XyzSampleIdx(p) == {i \in 1..Len(xyz_sales) : xyz_sales[i].product_id = p}

RECURSIVE SumOver(_, _)
SumOver(idx, square) ==
    IF idx = {} THEN 0
    ELSE LET i == CHOOSE k \in idx : TRUE
             x == xyz_sales[i].daily_quantity
         IN  (IF square THEN x * x ELSE x) + SumOver(idx \ {i}, square)

\* CV < bound (strict) or CV <= bound, for CV = sample standard deviation
\* / mean * 100 over n samples with sum s and sum of squares ss, and CV = 0
\* when the mean is <= 0:  CV^2 = 10^4 * n * (n*ss - s^2) / ((n-1) * s^2).
CvBelow(n, s, ss, bound, strict) ==
    IF s <= 0 THEN (IF strict THEN 0 < bound ELSE 0 <= bound)
    ELSE LET lhs == 10000 * n * (n * ss - s * s)
             rhs == bound * bound * (n - 1) * s * s
         IN  IF strict THEN lhs < rhs ELSE lhs <= rhs

ExpectedXyzClass(p) ==
    LET n == Cardinality(XyzSampleIdx(p))
        s == SumOver(XyzSampleIdx(p), FALSE)
        ss == SumOver(XyzSampleIdx(p), TRUE)
    IN  IF CvBelow(n, s, ss, 20, TRUE) THEN "X"
        ELSE IF CvBelow(n, s, ss, 50, FALSE) THEN "Y"
        ELSE "Z"

XyzEntriesOf(p) == {i \in 1..Len(xyz_results) : xyz_results[i].product_id = p}

\* C7: a product with fewer than 2 daily samples is not in the answer of
\* the XYZ analysis; every other product is in it once, with class X iff
\* CV < 20, Y iff 20 <= CV <= 50 and Z iff CV > 50, CV being the sample
\* standard deviation (n - 1) over the mean times 100, and 0 for a mean <= 0.
C7_XyzRule ==
    xyz_pc = "returned" =>
       \A p \in XyzProductIds :
          IF Cardinality(XyzSampleIdx(p)) < 2 THEN XyzEntriesOf(p) = {}
          ELSE /\ Cardinality(XyzEntriesOf(p)) = 1
               /\ \A i \in XyzEntriesOf(p) :
                     xyz_results[i].xyz_class = ExpectedXyzClass(p)

\* Product 1 has the samples 4, 5, 6 (CV exactly 20, class Y) and product 2
\* has a single sample and no class.
C7_Witness ==
    /\ xyz_pc = "returned"
    /\ Len(xyz_sales) = 4
    /\ Cardinality(XyzSampleIdx(2)) = 1
    /\ {xyz_sales[i].daily_quantity : i \in XyzSampleIdx(1)} = {4, 5, 6}
    /\ Len(xyz_results) = 1
    /\ xyz_results[1].product_id = 1
    /\ xyz_results[1].xyz_class = "Y"
    /\ xyz_results[1].coefficient_of_variation = 2000

StrategyCalled == opt_call = "calculate_abc_xyz_strategy" /\ opt_pc # "idle"
PriorityCalled == opt_call = "_get_priority_level" /\ opt_pc # "idle"
EoqCalled == opt_call = "calculate_eoq" /\ opt_pc # "idle"

\* The label pair of the call is one of the 9 cells of the matrix.
TabulatedPair ==
    /\ opt_args.abc_class \in {<<"A">>, <<"B">>, <<"C">>}
    /\ opt_args.xyz_class \in {<<"X">>, <<"Y">>, <<"Z">>}

CellMultiplier10 ==
    LET cell == <<opt_args.abc_class, opt_args.xyz_class>>
    IN  CASE cell = <<(<<"A">>), (<<"X">>)>> -> 15
          [] cell = <<(<<"A">>), (<<"Y">>)>> -> 20
          [] cell = <<(<<"A">>), (<<"Z">>)>> -> 30
          [] cell = <<(<<"B">>), (<<"X">>)>> -> 18
          [] cell = <<(<<"B">>), (<<"Z">>)>> -> 35
          [] cell = <<(<<"C">>), (<<"X">>)>> -> 20
          [] cell = <<(<<"C">>), (<<"Y">>)>> -> 30
          [] cell = <<(<<"C">>), (<<"Z">>)>> -> 40
          [] OTHER -> 25

\* C9: the strategy's recommended_max_stock is reorder_point + eoq x the
\* cell's max-stock multiplier, its recommended_min_stock is reorder_point
\* x 0.5, and the status is CRITICAL if stock <= min, else LOW if stock <=
\* reorder_point, else OPTIMAL if stock <= max, else EXCESS.
C9_StockLevelsAndStatus ==
    StrategyCalled =>
       LET max100 == 100 * opt_args.reorder_point + 10 * opt_args.eoq * CellMultiplier10
           min100 == 50 * opt_args.reorder_point
           stock100 == 100 * opt_args.current_stock
       IN  /\ opt_result.recommended_max_stock = max100
           /\ opt_result.recommended_min_stock = min100
           /\ opt_result.current_stock_status =
                 IF stock100 <= min100 THEN "CRITICAL"
                 ELSE IF opt_args.current_stock <= opt_args.reorder_point THEN "LOW"
                 ELSE IF stock100 <= max100 THEN "OPTIMAL"
                 ELSE "EXCESS"

\* Cell AY, reorder point 2, eoq 1, stock 4: stock equals max and is OPTIMAL.
C9_Witness ==
    /\ StrategyCalled
    /\ opt_args.abc_class = <<"A">>
    /\ opt_args.xyz_class = <<"Y">>
    /\ opt_args.reorder_point = 2
    /\ opt_args.eoq = 1
    /\ opt_args.current_stock = 4
    /\ opt_result.recommended_max_stock = 400
    /\ opt_result.current_stock_status = "OPTIMAL"

\* C10: calculate_eoq called with annual demand, ordering cost or holding
\* cost <= 0 returns, and what it returns has eoq, orders_per_year,
\* ordering cost, holding cost and total cost all 0.
C10_EoqDegenerateIsZero ==
    (/\ EoqCalled
     /\ \/ opt_args.annual_demand <= 0
        \/ opt_args.ordering_cost <= 0
        \/ opt_args.holding_cost <= 0) =>
       /\ opt_pc = "returned"
       /\ opt_result.eoq = 0
       /\ opt_result.orders_per_year = 0
       /\ opt_result.ordering_cost = 0
       /\ opt_result.holding_cost = 0
       /\ opt_result.total_cost = 0

\* Zero demand with positive costs answered by the all-zero result.
C10_Witness ==
    /\ EoqCalled
    /\ opt_args.annual_demand = 0
    /\ opt_args.ordering_cost > 0
    /\ opt_args.holding_cost > 0
    /\ opt_pc = "returned"
    /\ opt_result.eoq = 0

ReorderCalled == opt_call = "calculate_reorder_point" /\ opt_pc # "idle"

\* C11: calculate_reorder_point called with a lead time, a daily demand or
\* a demand deviation that is zero or negative returns a result and does
\* not raise.
C11_ReorderPointNeverRaises ==
    (/\ ReorderCalled
     /\ \/ opt_args.lead_time_days <= 0
        \/ opt_args.daily_demand <= 0
        \/ opt_args.demand_std <= 0) =>
       opt_pc = "returned"

\* C12: the z-score of a reorder-point result is 1.28 for service level
\* 0.90, 1.65 for 0.95, 1.88 for 0.97, 2.33 for 0.99, and 1.65 for every
\* other service level.
C12_ZScoreExactLookup ==
    (ReorderCalled /\ opt_pc = "returned") =>
       opt_result.z_score =
          CASE opt_args.service_level = 900 -> 128
            [] opt_args.service_level = 950 -> 165
            [] opt_args.service_level = 970 -> 188
            [] opt_args.service_level = 990 -> 233
            [] OTHER -> 165

\* Service level 0.955, between two tabulated levels, answered with 1.65.
C12_Witness ==
    /\ ReorderCalled
    /\ opt_pc = "returned"
    /\ opt_args.service_level = 955
    /\ opt_result.z_score = 165

\* C13: in every reorder-point result lead_time_demand = daily_demand x
\* lead_time_days, safety_stock = z x demand_std x sqrt(lead_time_days) (to
\* the nearest hundredth) and reorder_point = lead_time_demand +
\* safety_stock; for (7, 50, 10, 0.95) the result is 350, 43.66 and 393.66
\* to within 0.01.
C13_ReorderPointFormulas ==
    (ReorderCalled /\ opt_pc = "returned") =>
       LET x == opt_result.z_score * opt_result.z_score
                   * opt_args.demand_std * opt_args.demand_std
                   * opt_args.lead_time_days
           m == Abs(opt_result.safety_stock)
       IN  /\ opt_result.lead_time_demand
                 = 100 * opt_args.daily_demand * opt_args.lead_time_days
           /\ m = 0 \/ (2 * m - 1) * (2 * m - 1) <= 4 * x
           /\ 4 * x <= (2 * m + 1) * (2 * m + 1)
           /\ opt_args.demand_std < 0 => opt_result.safety_stock <= 0
           /\ opt_args.demand_std > 0 => opt_result.safety_stock >= 0
           /\ opt_result.reorder_point
                 = opt_result.lead_time_demand + opt_result.safety_stock
           /\ (/\ opt_args.lead_time_days = 7
               /\ opt_args.daily_demand = 50
               /\ opt_args.demand_std = 10
               /\ opt_args.service_level = 950) =>
                 /\ opt_result.lead_time_demand = 35000
                 /\ Abs(opt_result.safety_stock - 4366) <= 1
                 /\ Abs(opt_result.reorder_point - 39366) <= 1

\* The call (7, 50, 10, 0.95) and its result.
C13_Witness ==
    /\ ReorderCalled
    /\ opt_pc = "returned"
    /\ opt_args = [lead_time_days |-> 7, daily_demand |-> 50,
                   demand_std |-> 10, service_level |-> 950]
    /\ opt_result.lead_time_demand = 35000
    /\ opt_result.safety_stock = 4365

\* r is the whole number nearest to sqrt(n / d * 10^4), for n >= 0, d > 0:
\* (2r - 1)^2 * d <= 4 * n * 10^4 < (2r + 1)^2 * d.
IsNearestRoot(r, n, d) ==
    LET target == <<0>> \o BigMulSmall(BigOf(n), 4, 0)
        below == BigMul(BigMul(BigOf(2 * r - 1), BigOf(2 * r - 1)), BigOf(d))
        above == BigMul(BigMul(BigOf(2 * r + 1), BigOf(2 * r + 1)), BigOf(d))
    IN  /\ r >= 0
        /\ r = 0 \/ BigLe(below, target)
        /\ ~BigLe(above, target)

\* C14: for positive inputs D, S, H the result of calculate_eoq has, to the
\* nearest hundredth, eoq = sqrt(2DS / H), orders_per_year = D / eoq
\* (= sqrt(DH / 2S)) and total cost = orders_per_year x S + (eoq / 2) x H
\* (= sqrt(DSH / 2) + sqrt(DSH / 2) = sqrt(2DSH)); for (10000, 100, 20) the
\* eoq is 316.23 to within 0.01 and orders_per_year is 31.62.
C14_EoqFormulas ==
    (/\ EoqCalled
     /\ opt_args.annual_demand > 0
     /\ opt_args.ordering_cost > 0
     /\ opt_args.holding_cost > 0) =>
       LET D == opt_args.annual_demand
           S == opt_args.ordering_cost
           H == opt_args.holding_cost
       IN  /\ opt_pc = "returned"
           /\ IsNearestRoot(opt_result.eoq, 2 * D * S, H)
           /\ IsNearestRoot(opt_result.orders_per_year, D * H, 2 * S)
           /\ IsNearestRoot(opt_result.ordering_cost, D * S * H, 2)
           /\ IsNearestRoot(opt_result.holding_cost, D * S * H, 2)
           /\ IsNearestRoot(opt_result.total_cost, 2 * D * S * H, 1)
           /\ (D = 10000 /\ S = 100 /\ H = 20) =>
                 /\ Abs(opt_result.eoq - 31623) <= 1
                 /\ opt_result.orders_per_year = 3162

\* The call (10000, 100, 20) and its result.
C14_Witness ==
    /\ EoqCalled
    /\ opt_args = [annual_demand |-> 10000, ordering_cost |-> 100,
                   holding_cost |-> 20]
    /\ opt_pc = "returned"
    /\ opt_result.eoq = 31623
    /\ opt_result.orders_per_year = 3162
    /\ opt_result.total_cost = 632456

UrgencyWeight(urgency) ==
    CASE urgency = "critical" -> 100 [] urgency = "urgent" -> 50
      [] urgency = "normal" -> 10

TypeWeight(type) ==
    CASE type = "STOCK_OUT" -> 50 [] type = "CRITICAL_LOW" -> 40
      [] type = "REORDER_NOW" -> 30 [] type = "LOW_SUPPLY" -> 25
      [] type = "EXPIRY_RISK" -> 20 [] type = "EXCESS_STOCK" -> 5
      [] type = "OVERSTOCK" -> 3 [] type = "OPTIMAL" -> 1

\* C15: the priority score of every recommendation returned is its urgency
\* weight plus its type weight, and the list is in descending order of the
\* score.
C15_ScoreAndOrder ==
    rec_pc = "returned" =>
       /\ \A k \in 1..Len(recommendations) :
             recommendations[k].priority_score
                = UrgencyWeight(recommendations[k].urgency)
                     + TypeWeight(recommendations[k].type)
       /\ \A k \in 1..(Len(recommendations) - 1) :
             recommendations[k].priority_score
                >= recommendations[k + 1].priority_score

\* Two rows returned in the reverse of the query order: the second row
\* scores higher than the first.
C15_Witness ==
    /\ rec_pc = "returned"
    /\ Len(recommendations) = 2
    /\ recommendations[1].product_id = 2
    /\ recommendations[2].product_id = 1
    /\ recommendations[1].priority_score = 150
    /\ recommendations[2].priority_score = 11

WindowSpan(w) == w.end - w.start + 1

\* Quantity or revenue sold on the days lo..hi.
RECURSIVE SoldBetween(_, _, _, _)
SoldBetween(k, lo, hi, revenue) ==
    IF k = 0 THEN 0
    ELSE (IF lo <= mkt_sales[k].sale_date /\ mkt_sales[k].sale_date <= hi
             THEN (IF revenue THEN mkt_sales[k].net_amount
                   ELSE mkt_sales[k].quantity_sold)
             ELSE 0)
         + SoldBetween(k - 1, lo, hi, revenue)

\* C16: for an event with end_date >= start_date the pre-event, event and
\* post-event windows of the analysis each span end - start + 1 days, do
\* not overlap, and are contiguous: the pre window ends the day before the
\* event starts and the post window starts the day after the event ends.
C16_WindowsEqualDisjointContiguous ==
    (mkt_pc = "returned" /\ mkt_event.end_date >= mkt_event.start_date) =>
       LET d == mkt_event.end_date - mkt_event.start_date + 1
           pre == mkt_result.pre_event.period
           during == mkt_result.during_event.period
           post == mkt_result.post_event.period
       IN  /\ WindowSpan(pre) = d
           /\ WindowSpan(during) = d
           /\ WindowSpan(post) = d
           /\ during.start = mkt_event.start_date
           /\ during.end = mkt_event.end_date
           /\ pre.end = during.start - 1
           /\ post.start = during.end + 1
           /\ {n \in SaleDays : pre.start <= n /\ n <= pre.end}
                 \cap {n \in SaleDays : during.start <= n /\ n <= during.end} = {}
           /\ {n \in SaleDays : during.start <= n /\ n <= during.end}
                 \cap {n \in SaleDays : post.start <= n /\ n <= post.end} = {}
           /\ mkt_result.pre_event.quantity
                 = SoldBetween(Len(mkt_sales), mkt_event.start_date - d,
                               mkt_event.start_date - 1, FALSE)

\* A two-day event with a sale on its first day and a sale on the day
\* before: the first counts as during-event only, the second as pre-event.
C16_Witness ==
    /\ mkt_pc = "returned"
    /\ mkt_event.end_date = mkt_event.start_date + 1
    /\ Len(mkt_sales) = 2
    /\ mkt_sales[1].sale_date = mkt_event.start_date
    /\ mkt_sales[2].sale_date = mkt_event.start_date - 1
    /\ mkt_result.pre_event.quantity = mkt_sales[2].quantity_sold
    /\ mkt_result.during_event.quantity = mkt_sales[1].quantity_sold

\* p is x / y * 100 to the nearest hundredth, in hundredths (y > 0).
IsPercentOf(p, x, y) ==
    /\ 2 * y * p - y <= 2 * 10000 * x
    /\ 2 * 10000 * x < 2 * y * p + y

\* C17: quantity and revenue uplift are the during-event total minus the
\* pre-event total; each uplift percentage is uplift / pre-event total x
\* 100, and 0 when the pre-event total is 0; an ROI is reported exactly
\* when the event has a budget > 0, and is (revenue_uplift - budget) /
\* budget x 100.
C17_UpliftAndRoi ==
    mkt_pc = "returned" =>
       LET pre == mkt_result.pre_event
           during == mkt_result.during_event
           impact == mkt_result.impact_analysis
           budget == mkt_event.budget_rm
           qty_uplift == during.quantity - pre.quantity
           rev_uplift == during.revenue - pre.revenue
       IN  /\ impact.quantity_uplift = 100 * qty_uplift
           /\ impact.revenue_uplift = 100 * rev_uplift
           /\ IF pre.quantity = 0 THEN impact.quantity_uplift_percentage = 0
              ELSE IsPercentOf(impact.quantity_uplift_percentage, qty_uplift,
                               pre.quantity)
           /\ IF pre.revenue = 0 THEN impact.revenue_uplift_percentage = 0
              ELSE IsPercentOf(impact.revenue_uplift_percentage, rev_uplift,
                               pre.revenue)
           /\ (mkt_result.roi_analysis # None) <=> (budget # None /\ budget[1] > 0)
           /\ mkt_result.roi_analysis # None =>
                 IsPercentOf(mkt_result.roi_analysis[1].roi_percentage,
                             rev_uplift - budget[1], budget[1])

\* No sales before the event, sales during it, and a budget: the uplift is
\* the event's sales, its percentage is 0, and an ROI is reported.
C17_Witness ==
    /\ mkt_pc = "returned"
    /\ mkt_result.pre_event.transactions = 0
    /\ mkt_result.during_event.revenue = 2
    /\ mkt_result.impact_analysis.revenue_uplift = 200
    /\ mkt_result.impact_analysis.revenue_uplift_percentage = 0
    /\ mkt_event.budget_rm = Some(1)
    /\ mkt_result.roi_analysis # None
    /\ mkt_result.roi_analysis[1].roi_percentage = 10000

\* The series handed to the engine is y_t = a + b * t with a = y_0 and
\* b = y_1 - y_0.
SeriesIsLinear ==
    /\ Len(eng_data) >= 2
    /\ \A t \in 1..Len(eng_data) :
          eng_data[t] = eng_data[1] + (eng_data[2] - eng_data[1]) * (t - 1)

\* C19: on a series y_t = a + b * t of n >= 2 points linear_trend returns
\* max(0, a + b * (n + periods_ahead - 1)); on every series of non-negative
\* values its result is not negative.
C19_LinearTrendExact ==
    eng_call = "linear_trend" =>
       /\ 0 <= eng_result.value[1] /\ 0 < eng_result.value[2]
       /\ SeriesIsLinear =>
             LET a == eng_data[1]
                 b == eng_data[2] - eng_data[1]
                 line == a + b * (Len(eng_data) + eng_periods - 1)
             IN  eng_result.value = <<Max2(0, line), 1>>

\* The series 0, 1, 2 read two periods ahead gives 4.
C19_Witness ==
    /\ eng_call = "linear_trend"
    /\ eng_data = <<0, 1, 2>>
    /\ eng_periods = 2
    /\ eng_result.value = <<4, 1>>

SeriesIsConstant ==
    /\ Len(eng_data) >= 1
    /\ \A t \in 1..Len(eng_data) : eng_data[t] = eng_data[1]

AloneResult(call) ==
    IF call.fn = "exponential_smoothing"
        THEN exponential_smoothing(AsFractions(call.data), call.alpha)
        ELSE ReorderPointResult(call.lead_time_days, call.daily_demand,
                                call.demand_std, call.service_level)

\* C18: however the statements of two parallel calls interleave, a call
\* that has returned has returned what it returns when run alone on the
\* same arguments.
C18_ParallelCallsIndependent ==
    \A c \in DOMAIN par_pc :
       par_pc[c] = "done" => par_result[c] = Some(AloneResult(par_calls[c]))

\* Two smoothing calls on different series, their statements alternating,
\* both returned.
C18_Witness ==
    /\ DOMAIN par_pc = ParCalls
    /\ par_calls[1] = SmoothingCall(<<1, 2>>)
    /\ par_calls[2] = SmoothingCall(<<2, 0, 1>>)
    /\ par_pc[1] = "done" /\ par_pc[2] = "done"
    /\ SubSeq(par_trace, 1, 4) = <<1, 2, 1, 2>>
    /\ par_result[1] # par_result[2]

(***************************************************************************)
(* C21.  The fallback of seasonal_decompose (sarima_simple).               *)
(***************************************************************************)
\* C21: for every series with fewer than 2 x seasonal_periods points, the
\* empty and the single-point series included, sarima_simple answers (it is
\* the fallback result, with a proper number as forecast) and its point
\* forecast is exactly linear_trend of the same series.
C21_ShortSeriesFallsBackToLinearTrend ==
    (eng_call = "sarima_simple" /\ Len(eng_data) < 2 * eng_periods) =>
        /\ eng_result.method = "linear_trend_fallback"
        /\ eng_result.forecast[2] # 0
        /\ eng_result.forecast = linear_trend(AsFractions(eng_data), 1)
        /\ Len(eng_data) = 0 => eng_result.forecast = QI(0)
        /\ Len(eng_data) = 1 => eng_result.forecast = QI(eng_data[1])

\* A three-point series that is not flat, with a season of two periods.
C21_Witness ==
    /\ eng_call = "sarima_simple"
    /\ eng_periods = 2
    /\ eng_data = <<0, 2, 1>>
    /\ eng_result.forecast = Q(2, 1)

(***************************************************************************)
(* C22.  A product that raises half-way through its periods.               *)
(***************************************************************************)
\* The products whose iteration raised after at least one period had been
\* processed (its stored month deleted, its engine called).
RaisedMidway ==
    {gen_log[k].product_id : k \in {j \in 1..Len(gen_log) :
        /\ gen_log[j].outcome \notin {"done", "skipped"}
        /\ Len(gen_log[j].calls) >= 1}}

RowsOfProduct(table, product_id) == {r \in table : r.product_id = product_id}

\* C22: the final commit leaves the stored forecasts of every product that
\* raised after some of its periods were processed as they were before the
\* run: none removed, none added.
C22_NoPartialResultPersisted ==
    [][(gen_pc = "running" /\ gen_pc' = "committed") =>
          \A p \in RaisedMidway :
             RowsOfProduct(forecast_table', p) = RowsOfProduct(forecast_table, p)]_vars

(***************************************************************************)
(* C23.  One forecast record per product and calendar month.               *)
(***************************************************************************)
\* The products whose iteration ran through all its periods.
ProcessedProducts ==
    {gen_log[k].product_id : k \in {j \in 1..Len(gen_log) : gen_log[j].outcome = "done"}}

\* C23: after the run has committed, no processed product has two forecast
\* records whose forecast periods fall in the same calendar month.
C23_OneRecordPerMonth ==
    gen_pc = "committed" =>
        \A r1, r2 \in forecast_table :
            (/\ r1.product_id \in ProcessedProducts
             /\ r1.product_id = r2.product_id
             /\ date_trunc_month(r1.forecast_period) = date_trunc_month(r2.forecast_period))
            => r1 = r2

(***************************************************************************)
(* C24.  Stock never goes below zero.                                      *)
(***************************************************************************)
\* The request handled by this step would take the quantity of its stock
\* entry below zero.
WouldGoBelowZero ==
    \/ /\ inv_last'.call = "adjust_stock"
       /\ inv_last'.stock_id \in DOMAIN inv_stock
       /\ inv_stock[inv_last'.stock_id].quantity_available + inv_last'.quantity < 0
    \/ /\ inv_last'.call = "create_stock_movement"
       /\ inv_last'.movement_type \in StockTypesOut
       /\ inv_last'.stock_id \in DOMAIN inv_stock
       /\ inv_stock[inv_last'.stock_id].quantity_available - inv_last'.quantity < 0

\* C24: after any sequence of adjust_stock and create_stock_movement calls
\* every stock entry has quantity_available >= 0, and a call that would take
\* the quantity below zero is answered with an error, changes no stock entry
\* (quantity and cost) and records no movement.
C24_StockNeverNegative ==
    /\ [](\A i \in DOMAIN inv_stock : inv_stock[i].quantity_available >= 0)
    /\ [][WouldGoBelowZero =>
            /\ inv_last'.status = 400
            /\ inv_stock' = inv_stock
            /\ inv_movements' = inv_movements]_vars

\* An adjustment refused after an issue had emptied the entry.
C24_Witness ==
    /\ inv_last.call = "adjust_stock"
    /\ inv_last.status = 400
    /\ Len(inv_movements) = 1
    /\ inv_movements[1].movement_type = "STOCK_OUT"
    /\ inv_stock[1].quantity_available = 0

(***************************************************************************)
(* C25.  Two concurrent adjustments of one stock entry.                    *)
(***************************************************************************)
\* Net quantity of the movement records written, receipts counted up and
\* issues down.
RECURSIVE NetOfMovements(_)
NetOfMovements(k) ==
    IF k = 0 THEN 0
    ELSE NetOfMovements(k - 1)
         + (IF inv_movements[k].movement_type \in StockTypesIn
               THEN inv_movements[k].quantity ELSE 0 - inv_movements[k].quantity)

BothAdjusted ==
    /\ adj_request # NoRequests
    /\ adj_request[1].stock_id = adj_request[2].stock_id
    /\ adj_pc[1] = "done" /\ adj_pc[2] = "done"

\* C25: when two adjust_stock requests on the same stock entry both
\* succeed, the entry ends at its original quantity plus both changes, which
\* is also the original quantity plus the net of the movements written.
C25_NoLostAdjustment ==
    BothAdjusted =>
        LET stock_id == adj_request[1].stock_id
            original == adj_initial[stock_id].quantity_available
            final == inv_stock[stock_id].quantity_available
        IN  /\ final = original + adj_request[1].quantity_change
                                + adj_request[2].quantity_change
            /\ final = original + NetOfMovements(Len(inv_movements))

(***************************************************************************)
(* C26.  The score follows the cascade.                                    *)
(***************************************************************************)
\* Position of a recommendation type in the if/elif cascade.
CascadeRank(type) ==
    CASE type = "STOCK_OUT" -> 1 [] type = "CRITICAL_LOW" -> 2
      [] type = "REORDER_NOW" -> 3 [] type = "LOW_SUPPLY" -> 4
      [] type = "EXPIRY_RISK" -> 5 [] type = "EXCESS_STOCK" -> 6
      [] type = "OVERSTOCK" -> 7 [] type = "OPTIMAL" -> 8

UrgencyRank(urgency) ==
    CASE urgency = "critical" -> 1 [] urgency = "urgent" -> 2
      [] urgency = "normal" -> 3

\* C26: of two recommendations returned, the one whose type comes earlier
\* in the cascade has the strictly higher priority score, and in the
\* returned list every critical recommendation precedes every urgent one
\* and every urgent one precedes every normal one.
C26_ScoreDecreasesAlongCascade ==
    rec_pc = "returned" =>
       \A k, j \in 1..Len(recommendations) :
          /\ CascadeRank(recommendations[k].type) < CascadeRank(recommendations[j].type)
                => recommendations[k].priority_score > recommendations[j].priority_score
          /\ k < j => UrgencyRank(recommendations[k].urgency)
                         <= UrgencyRank(recommendations[j].urgency)

\* A low-supply row queried after an expiry-risk row and returned before it.
C26_Witness ==
    /\ rec_pc = "returned"
    /\ Len(recommendations) = 2
    /\ recommendations[1].type = "LOW_SUPPLY"
    /\ recommendations[1].product_id = 2
    /\ recommendations[2].type = "EXPIRY_RISK"

(***************************************************************************)
(* C27.  The two ABC-XYZ paths on the same sales.                          *)
(***************************************************************************)
\* C27: for the same sales, a product that both endpoints classify gets the
\* same matrix cell from the optimization path as from the classification
\* path (cumulative-revenue ABC class, XYZ class of the CV with the sample
\* standard deviation).
C27_SameCellOnBothPaths ==
    (cell_optimization # None /\ cell_matrix # None) =>
        \A i \in 1..Len(Val(cell_optimization)), j \in 1..Len(Val(cell_matrix)) :
            Val(cell_optimization)[i].product_id = Val(cell_matrix)[j].product_id
                => /\ Val(cell_optimization)[i].abc_class = Val(cell_matrix)[j].abc_class
                   /\ Val(cell_optimization)[i].xyz_class = Val(cell_matrix)[j].xyz_class

(***************************************************************************)
(* C28.  The confidence interval in full mode.                             *)
(***************************************************************************)
\* recent_errors of the call recorded in the state.
ErrorsOfCall ==
    RecentErrors(AsFractions(eng_data), eng_periods,
                 SeasonalIndices(AsFractions(eng_data), eng_periods))

FullMode ==
    /\ eng_call = "sarima_simple"
    /\ eng_periods >= 1
    /\ Len(eng_data) >= 2 * eng_periods

\* C28: in full mode the list of past errors is never empty and the upper
\* bound is the forecast plus 1.96 standard deviations of those errors, so
\* the +/-20% interval is not the one returned.
C28_FullModeHasErrorHistory ==
    FullMode =>
        /\ eng_result.method = "sarima_simple"
        /\ ErrorsOfCall # <<>>
        /\ eng_result.confidence_upper
              = QAdd(eng_result.forecast, QMul(Q(196, 100), QStd(ErrorsOfCall)))

\* Exactly two seasons of two periods, with errors of different sizes.
C28_Witness ==
    /\ FullMode
    /\ eng_periods = 2
    /\ eng_data = <<1, 2, 1, 0>>
    /\ Len(ErrorsOfCall) = 2
    /\ ErrorsOfCall[1] # ErrorsOfCall[2]

(***************************************************************************)
(* C29.  The product ranked last by revenue.                               *)
(***************************************************************************)
\* C29: whenever the total revenue is positive, the product ranked last
\* has cumulative percentage 100 and class C; when only one product has
\* sales, it is classified C and class A is empty.
C29_LastProductIsC ==
    (abc_pc = "returned" /\ abc_sales # <<>>) =>
        LET n == Len(abc_results)
        IN  /\ n = Len(abc_sales)
            /\ abc_results[n].cumulative_percentage = QI(100)
            /\ abc_results[n].abc_class = "C"
            /\ n = 1 => \A k \in 1..n : abc_results[k].abc_class # "A"

\* Three products returned, the first in class A, the last holding a tenth
\* of the revenue.
C29_Witness ==
    /\ abc_pc = "returned"
    /\ Len(abc_results) = 3
    /\ abc_results[1].abc_class = "A"
    /\ abc_results[3].total_revenue = 1
    /\ TotalRevenue(abc_sales) = 10

(***************************************************************************)
(* C30.  A product with too little history.                                *)
(***************************************************************************)
\* The products the run skipped.
SkippedProducts ==
    {gen_log[k].product_id : k \in {j \in 1..Len(gen_log) : gen_log[j].outcome = "skipped"}}

\* C30: an iteration whose sales query returns fewer than 3 monthly points
\* skips the product: it leaves the pending deletes and additions of the run
\* as they are and the loop moves on to the next product; the commit leaves
\* the stored forecasts of every skipped product untouched.
C30_ShortHistoryIsSkipped ==
    /\ [][(Len(gen_log') = Len(gen_log) + 1
             /\ gen_log'[Len(gen_log')].history < MinSalesPoints
             /\ gen_log'[Len(gen_log')].outcome # "sales_query") =>
            /\ gen_log'[Len(gen_log')].outcome = "skipped"
            /\ gen_log'[Len(gen_log')].calls = <<>>
            /\ gen_deleted' = gen_deleted
            /\ gen_added' = gen_added
            /\ gen_next' = gen_next + 1
            /\ gen_pc' = "running"]_vars
    /\ [][(gen_pc = "running" /\ gen_pc' = "committed") =>
            \A p \in SkippedProducts :
               RowsOfProduct(forecast_table', p) = RowsOfProduct(forecast_table, p)]_vars

\* A committed run that skipped its first product, whose stored forecast is
\* still there, and stored two forecasts for the second.
C30_Witness ==
    /\ gen_pc = "committed"
    /\ Len(gen_log) = 2
    /\ gen_log[1].outcome = "skipped"
    /\ gen_log[1].history = 2
    /\ gen_log[2].outcome = "done"
    /\ OldRow(gen_log[1].product_id) \in forecast_table
    /\ Cardinality(RowsOfProduct(forecast_table, gen_log[2].product_id)) = 2

====
